---- MODULE Spec2Model ----
(***************************************************************************)
(* A model of the yuk controller: the YukConfig reconciliation pass        *)
(* (pkg/controllers), the YAML path updater it drives (pkg/yaml), the git  *)
(* client (pkg/git) and the ECR tag resolver (pkg/ecr).                    *)
(*                                                                         *)
(* Go strings that the code takes apart (image references, tags, YAML      *)
(* paths, tag filters) are sequences of one-character strings.  Times and  *)
(* durations are whole numbers of minutes, and the clock readings of one   *)
(* pass (Reconcile's now, setCondition's metav1.Now()) fall in the same    *)
(* minute.  A nil pointer is the empty sequence <<>>, a set pointer the    *)
(* one-element sequence <<v>>.  Telemetry (the Prometheus metrics) is not  *)
(* modelled.                                                               *)
(*                                                                         *)
(* Spec is the reconciler with its collaborators.  CondSpec, YamlSpec,     *)
(* PathSpec and EcrSpec run setCondition, the updater, the path functions  *)
(* and the tag resolver on their own, on inputs a pass of the reconciler   *)
(* does not produce.                                                       *)
(***************************************************************************)
EXTENDS Integers, Sequences, FiniteSets, TLC

(***************************************************************************)
(* Bounds of the model                                                     *)
(***************************************************************************)
\* clock readings are drawn from 0..MaxTime and DefaultCheckInterval
MaxTime == 2
\* reconciliation passes per behaviour
MaxPasses == 2
\* edits of the stored object by its owner (disable, enable, delete)
MaxEdits == 1
\* setCondition calls made on one condition list
MaxCalls == 3
\* UpdateYAMLPath calls made with one request on one directory
MaxApply == 2
\* characters of a typed path expression
MaxLen == 5
\* GetLatestTag calls made on their own
MaxLookups == 2
\* passes in which anything may fail before the collaborators stop failing,
\* and passes made after that
MaxUnsettled == 1
MaxSettled == 2

\* checkInterval := 5 * time.Minute when spec.checkInterval is nil
DefaultCheckInterval == 5

\* the clock readings: the first minutes and the one a default interval later
Times == (0..MaxTime) \cup {DefaultCheckInterval}

(***************************************************************************)
(* Characters and strings                                                  *)
(***************************************************************************)
DigitChars == {"0", "1", "2", "3", "4", "5", "6", "7", "8", "9"}
LetterChars ==
    {"a", "b", "c", "d", "e", "f", "g", "h", "i", "j", "k", "l", "m",
     "n", "o", "p", "q", "r", "s", "t", "u", "v", "w", "x", "y", "z",
     "A", "B", "C", "D", "E", "F", "G", "H", "I", "J", "K", "L", "M",
     "N", "O", "P", "Q", "R", "S", "T", "U", "V", "W", "X", "Y", "Z"}
\* the regexp class \w
WordChars == LetterChars \cup DigitChars \cup {"_"}

DigitVal(c) ==
    CASE c = "0" -> 0 [] c = "1" -> 1 [] c = "2" -> 2 [] c = "3" -> 3
      [] c = "4" -> 4 [] c = "5" -> 5 [] c = "6" -> 6 [] c = "7" -> 7
      [] c = "8" -> 8 [] c = "9" -> 9

\* byte value of the characters tags are made of (Go compares strings bytewise)
CharCode(c) ==
    CASE c \in DigitChars -> 48 + DigitVal(c)
      [] c = "-" -> 45
      [] c = "." -> 46
      [] c = ":" -> 58
      [] c = "_" -> 95
      [] c = "v" -> 118
      [] c = "x" -> 120
      [] OTHER -> 97

RECURSIVE StrLess(_, _)
\* a < b on Go strings
StrLess(a, b) ==
    IF b = <<>> THEN FALSE
    ELSE IF a = <<>> THEN TRUE
    ELSE IF Head(a) = Head(b) THEN StrLess(Tail(a), Tail(b))
    ELSE CharCode(Head(a)) < CharCode(Head(b))

RECURSIVE SplitFrom(_, _, _)
\* strings.Split(s, sep) for a one-character sep; cur is the piece being read
SplitFrom(s, sep, cur) ==
    IF s = <<>> THEN <<cur>>
    ELSE IF Head(s) = sep THEN <<cur>> \o SplitFrom(Tail(s), sep, <<>>)
    ELSE SplitFrom(Tail(s), sep, Append(cur, Head(s)))

Split(s, sep) == SplitFrom(s, sep, <<>>)

RECURSIVE Join(_, _)
\* strings.Join(parts, sep)
Join(parts, sep) ==
    IF parts = <<>> THEN <<>>
    ELSE IF Len(parts) = 1 THEN parts[1]
    ELSE parts[1] \o <<sep>> \o Join(Tail(parts), sep)

RECURSIVE DigitsValue(_, _)
DigitsValue(s, acc) ==
    IF s = <<>> THEN acc ELSE DigitsValue(Tail(s), 10 * acc + DigitVal(Head(s)))

\* strconv.Atoi: an optional sign, then one or more decimal digits
Atoi(s) ==
    LET signed == s # <<>> /\ Head(s) \in {"+", "-"}
        body   == IF signed THEN Tail(s) ELSE s
    IN  IF body = <<>> \/ \E i \in 1..Len(body) : body[i] \notin DigitChars
        THEN [err |-> "syntax", n |-> 0]
        ELSE [err |-> "",
              n   |-> IF signed /\ Head(s) = "-"
                      THEN 0 - DigitsValue(body, 0) ELSE DigitsValue(body, 0)]

(***************************************************************************)
(* pkg/yaml: the path updater.  A decoded YAML value is a record           *)
(*   [k |-> "str", v |-> chars]   [k |-> "int", v |-> <<n>>]               *)
(*   [k |-> "map", v |-> [keys -> values]]   [k |-> "seq", v |-> <<...>>]  *)
(***************************************************************************)
StrNode(s) == [k |-> "str", v |-> s]
IntNode(n) == [k |-> "int", v |-> <<n>>]
MapNode(f) == [k |-> "map", v |-> f]
SeqNode(s) == [k |-> "seq", v |-> s]

\* end of the run of characters of class cls that starts at i (first index past it)
RECURSIVE RunEnd(_, _, _)
RunEnd(s, i, cls) ==
    IF i <= Len(s) /\ s[i] \in cls THEN RunEnd(s, i + 1, cls) ELSE i

\* the match of (\w+)\[(\d+)\] that starts exactly at i: <<>> or <<j, k>> with
\* s[i..j-1] the word, s[j] = "[", s[j+1..k-1] the digits, s[k] = "]"
ArrayMatchAt(s, i) ==
    LET j == RunEnd(s, i, WordChars)
        k == RunEnd(s, j + 1, DigitChars)
    IN  IF j > i /\ j <= Len(s) /\ s[j] = "[" /\ k > j + 1 /\ k <= Len(s) /\ s[k] = "]"
        THEN <<j, k>> ELSE <<>>

\* arrayRegex.ReplaceAllString(path, "$1.$2"): leftmost matches, left to right,
\* the search resuming after each match
RECURSIVE ReplaceArrayFrom(_, _)
ReplaceArrayFrom(s, i) ==
    IF i > Len(s) THEN <<>>
    ELSE LET m == ArrayMatchAt(s, i)
         IN  IF m = <<>> THEN <<s[i]>> \o ReplaceArrayFrom(s, i + 1)
             ELSE SubSeq(s, i, m[1] - 1) \o <<".">> \o SubSeq(s, m[1] + 1, m[2] - 1)
                    \o ReplaceArrayFrom(s, m[2] + 1)

parsePath(path) == Split(ReplaceArrayFrom(path, 1), ".")

\* mutant: a key that is not in the map leads to an empty map
getValueLenient(data, key) ==
    CASE data.k = "map" ->
           IF key \in DOMAIN data.v
           THEN [err |-> "", val |-> data.v[key]]
           ELSE [err |-> "", val |-> MapNode(<<>>)]
      [] data.k = "seq" ->
           LET a == Atoi(key)
           IN  IF a.err # "" THEN [err |-> "invalid array index", val |-> data]
               ELSE IF a.n < 0 \/ a.n >= Len(data.v)
               THEN [err |-> "out of bounds", val |-> data]
               ELSE [err |-> "", val |-> data.v[a.n + 1]]
      [] OTHER -> [err |-> "cannot navigate", val |-> data]

\* getValue: [err, val]
getValue(data, key) ==
    CASE data.k = "map" ->
           IF key \in DOMAIN data.v
           THEN [err |-> "", val |-> data.v[key]]
           ELSE [err |-> "key not found", val |-> data]
      [] data.k = "seq" ->
           LET a == Atoi(key)
           IN  IF a.err # "" THEN [err |-> "invalid array index", val |-> data]
               ELSE IF a.n < 0 \/ a.n >= Len(data.v)
               THEN [err |-> "out of bounds", val |-> data]
               ELSE [err |-> "", val |-> data.v[a.n + 1]]
      [] OTHER -> [err |-> "cannot navigate", val |-> data]

\* mutant: the new tag is appended whether or not a tag is there
updateImageTagAppend(currentImage, newTag) == currentImage \o <<":">> \o newTag

\* mutant: everything after the first colon is taken for the tag
updateImageTagFirstColon(currentImage, newTag) ==
    LET parts == Split(currentImage, ":")
    IN  IF Len(parts) >= 2
        THEN parts[1] \o <<":">> \o newTag
        ELSE currentImage \o <<":">> \o newTag

\* updateImageTag
updateImageTag(currentImage, newTag) ==
    LET parts == Split(currentImage, ":")
    IN  IF Len(parts) >= 2
        THEN Join([parts EXCEPT ![Len(parts)] = newTag], ":")
        ELSE currentImage \o <<":">> \o newTag

\* mutant: a tag-only update of a value that is not a string is refused
setValueStringsOnly(data, key, newValue, imageTagOnly) ==
    CASE data.k = "map" ->
           IF imageTagOnly /\ key \in DOMAIN data.v /\ data.v[key].k = "str"
           THEN [err |-> "",
                 val |-> MapNode([data.v EXCEPT
                            ![key] = StrNode(updateImageTag(data.v[key].v, newValue))])]
           ELSE IF imageTagOnly /\ key \in DOMAIN data.v
           THEN [err |-> "not an image reference", val |-> data]
           ELSE [err |-> "",
                 val |-> MapNode([x \in DOMAIN data.v \cup {key} |->
                            IF x = key THEN StrNode(newValue) ELSE data.v[x]])]
      [] data.k = "seq" ->
           LET a == Atoi(key)
           IN  IF a.err # "" THEN [err |-> "invalid array index", val |-> data]
               ELSE IF a.n < 0 \/ a.n >= Len(data.v)
               THEN [err |-> "out of bounds", val |-> data]
               ELSE IF imageTagOnly /\ data.v[a.n + 1].k = "str"
               THEN [err |-> "",
                     val |-> SeqNode([data.v EXCEPT
                                ![a.n + 1] = StrNode(updateImageTag(data.v[a.n + 1].v, newValue))])]
               ELSE IF imageTagOnly
               THEN [err |-> "not an image reference", val |-> data]
               ELSE [err |-> "",
                     val |-> SeqNode([data.v EXCEPT ![a.n + 1] = StrNode(newValue)])]
      [] OTHER -> [err |-> "cannot set value", val |-> data]

\* setValue: [err, val], val the container after the assignment
setValue(data, key, newValue, imageTagOnly) ==
    CASE data.k = "map" ->
           IF imageTagOnly /\ key \in DOMAIN data.v /\ data.v[key].k = "str"
           THEN [err |-> "",
                 val |-> MapNode([data.v EXCEPT
                            ![key] = StrNode(updateImageTag(data.v[key].v, newValue))])]
           ELSE [err |-> "",
                 val |-> MapNode([x \in DOMAIN data.v \cup {key} |->
                            IF x = key THEN StrNode(newValue) ELSE data.v[x]])]
      [] data.k = "seq" ->
           LET a == Atoi(key)
           IN  IF a.err # "" THEN [err |-> "invalid array index", val |-> data]
               ELSE IF a.n < 0 \/ a.n >= Len(data.v)
               THEN [err |-> "out of bounds", val |-> data]
               ELSE IF imageTagOnly /\ data.v[a.n + 1].k = "str"
               THEN [err |-> "",
                     val |-> SeqNode([data.v EXCEPT
                                ![a.n + 1] = StrNode(updateImageTag(data.v[a.n + 1].v, newValue))])]
               ELSE [err |-> "",
                     val |-> SeqNode([data.v EXCEPT ![a.n + 1] = StrNode(newValue)])]
      [] OTHER -> [err |-> "cannot set value", val |-> data]

\* the container data with the child at key replaced (the Go code mutates the
\* child in place through the shared map or slice)
WithChild(data, key, child) ==
    IF data.k = "map" THEN MapNode([data.v EXCEPT ![key] = child])
    ELSE SeqNode([data.v EXCEPT ![Atoi(key).n + 1] = child])

RECURSIVE updateFrom(_, _, _, _, _)
\* the loop of updateValueAtPath from part i on: [err, val]
updateFrom(current, pathParts, i, newValue, imageTagOnly) ==
    IF i = Len(pathParts)
    THEN setValue(current, pathParts[i], newValue, imageTagOnly)
    ELSE LET next == getValue(current, pathParts[i])
         IN  IF next.err # "" THEN [err |-> next.err, val |-> current]
             ELSE LET r == updateFrom(next.val, pathParts, i + 1, newValue, imageTagOnly)
                  IN  IF r.err # "" THEN [err |-> r.err, val |-> current]
                      ELSE [err |-> "", val |-> WithChild(current, pathParts[i], r.val)]

updateValueAtPath(data, path, newValue, imageTagOnly) ==
    updateFrom(data, parsePath(path), 1, newValue, imageTagOnly)

RECURSIVE getFrom(_, _, _)
getFrom(current, pathParts, i) ==
    IF i > Len(pathParts) THEN [err |-> "", val |-> current]
    ELSE LET next == getValue(current, pathParts[i])
         IN  IF next.err # "" THEN next ELSE getFrom(next.val, pathParts, i + 1)

\* A directory is a function from the names of its files to their content,
\* [yaml |-> the text decodes, fmt |-> "orig" as the author wrote it or
\*  "canon" as yaml.Marshal emits it, doc |-> the decoded value].

\* GetValueAtPath: [err, val]
GetValueAtPath(dir, file, yamlPath) ==
    IF file \notin DOMAIN dir THEN [err |-> "read", val |-> <<>>]
    ELSE IF ~dir[file].yaml THEN [err |-> "parse", val |-> <<>>]
    ELSE getFrom(dir[file].doc, parsePath(yamlPath), 1)

\* what may go wrong in UpdateYAMLPath besides the file and the path: yaml.Marshal
\* fails, or os.WriteFile fails after it truncated the file
IOFaults == {"none", "marshal", "write"}

\* the file os.WriteFile leaves when it fails: cut short, no document
Truncated == [yaml |-> FALSE, fmt |-> "partial", doc |-> StrNode(<<>>)]

\* mutant: the file is opened for writing before the path is followed, so a
\* failed update leaves it rewritten
UpdateYAMLPathEager(dir, file, yamlPath, newValue, imageTagOnly, fault) ==
    IF file \notin DOMAIN dir THEN [err |-> "read", dir |-> dir]
    ELSE IF ~dir[file].yaml THEN [err |-> "parse", dir |-> dir]
    ELSE LET r == updateValueAtPath(dir[file].doc, yamlPath, newValue, imageTagOnly)
         IN  IF r.err # "" \/ fault # "none"
             THEN [err |-> IF r.err # "" THEN r.err ELSE fault,
                   dir |-> [dir EXCEPT ![file] = Truncated]]
             ELSE [err |-> "",
                   dir |-> [dir EXCEPT ![file] = [yaml |-> TRUE, fmt |-> "canon", doc |-> r.val]]]

\* UpdateYAMLPath: [err, dir], dir the directory after the call
UpdateYAMLPath(dir, file, yamlPath, newValue, imageTagOnly, fault) ==
    IF file \notin DOMAIN dir THEN [err |-> "read", dir |-> dir]
    ELSE IF ~dir[file].yaml THEN [err |-> "parse", dir |-> dir]
    ELSE LET r == updateValueAtPath(dir[file].doc, yamlPath, newValue, imageTagOnly)
         IN  IF r.err # "" THEN [err |-> r.err, dir |-> dir]
             ELSE IF fault = "marshal" THEN [err |-> "marshal", dir |-> dir]
             ELSE IF fault = "write"
             THEN [err |-> "write", dir |-> [dir EXCEPT ![file] = Truncated]]
             ELSE [err |-> "",
                   dir |-> [dir EXCEPT ![file] = [yaml |-> TRUE, fmt |-> "canon", doc |-> r.val]]]

\* [a-zA-Z_][a-zA-Z0-9_]* from i: the first index past it, 0 when there is none
IdentEnd(s, i) ==
    IF i <= Len(s) /\ s[i] \in LetterChars \cup {"_"} THEN RunEnd(s, i + 1, WordChars) ELSE 0

RECURSIVE MatchTail(_, _)
\* (\.[a-zA-Z_][a-zA-Z0-9_]*|\[\d+\])*$ from i
MatchTail(s, i) ==
    IF i > Len(s) THEN TRUE
    ELSE IF s[i] = "."
    THEN LET j == IdentEnd(s, i + 1) IN j # 0 /\ MatchTail(s, j)
    ELSE IF s[i] = "["
    THEN LET k == RunEnd(s, i + 1, DigitChars)
         IN  k > i + 1 /\ k <= Len(s) /\ s[k] = "]" /\ MatchTail(s, k + 1)
    ELSE FALSE

\* pathRegex.MatchString(path)
PathRegexMatches(path) ==
    LET j == IdentEnd(path, 1) IN j # 0 /\ MatchTail(path, j)

\* mutant: the expression is not anchored at the end
ValidateYAMLPathPrefix(path) ==
    IF path = <<>> THEN "YAML path cannot be empty"
    ELSE IF IdentEnd(path, 1) = 0 THEN "invalid YAML path format"
    ELSE ""

\* ValidateYAMLPath: the error, "" for nil
ValidateYAMLPath(path) ==
    IF path = <<>> THEN "YAML path cannot be empty"
    ELSE IF ~PathRegexMatches(path) THEN "invalid YAML path format"
    ELSE ""

(***************************************************************************)
(* pkg/ecr: the tag resolver.  A tag filter is a regular expression; the   *)
(* model covers the expressions made of an optional leading ^, literal     *)
(* characters and an optional trailing $, and "(" alone as an expression   *)
(* that does not compile.                                                  *)
(***************************************************************************)
RegexCompiles(pattern) == \A i \in 1..Len(pattern) : pattern[i] # "("

\* tagRegex.MatchString(tag): the expression matches somewhere in the tag
MatchString(pattern, tag) ==
    LET atStart == pattern # <<>> /\ Head(pattern) = "^"
        p1      == IF atStart THEN Tail(pattern) ELSE pattern
        atEnd   == p1 # <<>> /\ p1[Len(p1)] = "$"
        lit     == IF atEnd THEN SubSeq(p1, 1, Len(p1) - 1) ELSE p1
    IN  \E i \in 1..(Len(tag) + 1) :
            /\ i + Len(lit) - 1 <= Len(tag)
            /\ SubSeq(tag, i, i + Len(lit) - 1) = lit
            /\ atStart => i = 1
            /\ atEnd => i + Len(lit) - 1 = Len(tag)

RECURSIVE Flatten(_)
Flatten(ss) == IF ss = <<>> THEN <<>> ELSE Head(ss) \o Flatten(Tail(ss))

RECURSIVE FilterTags(_, _)
\* the tags kept by the loop over ImageDetails and ImageTags
FilterTags(tags, tagFilter) ==
    IF tags = <<>> THEN <<>>
    ELSE LET t == Head(tags)
             rest == FilterTags(Tail(tags), tagFilter)
         IN  IF t # <<>> /\ (tagFilter = <<>> \/ MatchString(tagFilter, t))
             THEN <<t>> \o rest ELSE rest

\* tags[0] after sort.Slice(tags, tags[i] > tags[j])
Greatest(tags) ==
    CHOOSE t \in {tags[i] : i \in 1..Len(tags)} :
        \A i \in 1..Len(tags) : ~StrLess(t, tags[i])

\* mutant: the tag filter is compiled but not applied to the tags
GetLatestTagUnfiltered(aws, imageDetails, tagFilter) ==
    IF aws # "ok" THEN [err |-> aws, tag |-> <<>>]
    ELSE IF Len(imageDetails) = 0 THEN [err |-> "no images found", tag |-> <<>>]
    ELSE IF tagFilter # <<>> /\ ~RegexCompiles(tagFilter)
    THEN [err |-> "invalid tag filter regex", tag |-> <<>>]
    ELSE LET tags == Flatten(imageDetails)
         IN  IF Len(tags) = 0 THEN [err |-> "no tags found", tag |-> <<>>]
             ELSE [err |-> "", tag |-> Greatest(tags)]

\* GetLatestTag: [err, tag].  aws is "ok" or the failure of initClient or
\* DescribeImages; imageDetails is the list of the images' tag lists.
GetLatestTag(aws, imageDetails, tagFilter) ==
    IF aws # "ok" THEN [err |-> aws, tag |-> <<>>]
    ELSE IF Len(imageDetails) = 0 THEN [err |-> "no images found", tag |-> <<>>]
    ELSE IF tagFilter # <<>> /\ ~RegexCompiles(tagFilter)
    THEN [err |-> "invalid tag filter regex", tag |-> <<>>]
    ELSE LET tags == FilterTags(Flatten(imageDetails), tagFilter)
         IN  IF Len(tags) = 0 THEN [err |-> "no tags found", tag |-> <<>>]
             ELSE [err |-> "", tag |-> Greatest(tags)]

(***************************************************************************)
(* The inputs of the model                                                 *)
(***************************************************************************)
Tag1 == <<"1">>
Tag2 == <<"2">>
TagV == <<"v", "1">>

\* what DescribeImages may list
ImageLists ==
    { <<>>,
      << <<Tag1>> >>,
      << <<Tag1, Tag2>> >>,
      << <<Tag2>>, <<Tag1, TagV>> >>,
      << <<TagV>> >>,
      << << <<>> >> >> }

PathImage == <<"i">>
PathFirst == <<"c", "[", "0", "]">>
PathSecond == <<"c", "[", "1", "]">>
PathCount == <<"r">>

DeploymentFile == "deployment.yaml"

\* the manifest the git remote holds at first: i an image with a tag, c a list
\* of one image with a registry port and no tag, r a number
Manifest ==
    MapNode(<<"i">> :> StrNode(<<"n", ":", "0">>)
         @@ <<"c">> :> SeqNode(<< StrNode(<<"h", ":", "5", "/", "n">>) >>)
         @@ <<"r">> :> IntNode(3))

InitialRemote == (DeploymentFile :> [yaml |-> TRUE, fmt |-> "orig", doc |-> Manifest])

Target(file, path, tagOnly) == [File |-> file, YAMLPath |-> path, ImageTagOnly |-> tagOnly]

TargetLists ==
    { << Target(DeploymentFile, PathImage, TRUE) >>,
      << Target(DeploymentFile, PathFirst, TRUE), Target(DeploymentFile, PathCount, TRUE) >>,
      << Target(DeploymentFile, PathImage, FALSE), Target(DeploymentFile, PathImage, TRUE) >>,
      << Target(DeploymentFile, PathImage, TRUE), Target(DeploymentFile, PathSecond, FALSE) >>,
      << Target("missing.yaml", PathImage, FALSE) >>,
      << >> }

BaseSpec ==
    [ Disabled      |-> FALSE,
      CheckInterval |-> <<2>>,
      Repository    |-> [Type |-> "ecr", ECR |-> << [TagFilter |-> <<>>] >>],
      Git           |-> [PersonalAccessTokenRef |-> TRUE],
      UpdateTargets |-> << Target(DeploymentFile, PathImage, TRUE) >> ]

\* the descriptors a behaviour may start with: the base one and its variations
Descriptors ==
    {[BaseSpec EXCEPT !.UpdateTargets = l] : l \in TargetLists}
      \cup {[BaseSpec EXCEPT !.CheckInterval = c] : c \in {<<>>, <<0>>}}
      \cup {[BaseSpec EXCEPT !.Disabled = TRUE]}
      \cup {[BaseSpec EXCEPT !.Repository = r] :
              r \in { [Type |-> "ecr", ECR |-> <<>>],
                      [Type |-> "gcr", ECR |-> <<>>],
                      [Type |-> "ecr", ECR |-> << [TagFilter |-> <<"^", "v">>] >>],
                      [Type |-> "ecr", ECR |-> << [TagFilter |-> <<"(">>] >>] }}

\* the zero value of YukConfigStatus
ZeroStatus ==
    [ LastChecked        |-> <<>>,
      LastUpdate         |-> <<>>,
      CurrentTag         |-> <<>>,
      LatestTag          |-> <<>>,
      Conditions         |-> <<>>,
      ObservedGeneration |-> 0 ]

\* the zero value of ctrl.Result with a nil error
NoResult == [RequeueAfter |-> 0, err |-> ""]

(***************************************************************************)
(* pkg/controllers: one reconciler worker for one resource identity        *)
(***************************************************************************)
VARIABLES
    stored,        \* the object the API server holds: exists, Generation, Spec, Status
    remote,        \* the branch of the git remote: a directory
    pushed,        \* the commits pushed to the branch, oldest first: the tag of each
    pc,            \* where the worker is in Reconcile
    got,           \* what r.Get answered in this pass
    yukConfig,     \* Reconcile's local copy of the object
    now,           \* Reconcile's now
    checkInterval, \* Reconcile's checkInterval
    latestTag,     \* Reconcile's latestTag
    tagErr,        \* Reconcile's err after the repository switch
    repoPath,      \* updateFiles' temporary checkout: <<>> or <<directory>>
    head,          \* the directory as cloned: what git diff --cached compares with
    idx,           \* updateFiles' position in spec.updateTargets
    err,           \* updateFiles' error
    ran,           \* the git commands CommitAndPush ran in the checkout
    attempted,     \* the update targets handed to UpdateYAMLPath, in order
    conflict,      \* the stored object changed since this pass fetched it
    result,        \* what Reconcile returned: RequeueAfter and error
    exit,          \* the return statement the pass left by
    calls,         \* the collaborator calls of the pass, in order
    fetched,       \* the status the pass read at Fetch
    wrote,         \* the status handed to Status().Update: <<>> or <<[Status, ok]>>
    passes,        \* passes started
    edits          \* edits made by the object's owner

\* The functions of the controller and of pkg/yaml that are also exercised on
\* their own, outside a pass: setCondition on a condition list, the updater on a
\* directory, the path functions on a path as it is typed, and the tag resolver
\* on a listing.
VARIABLES
    conds,         \* setCondition: the condition list
    before,        \* the list before the last setCondition call
    lastCall,      \* the arguments of the last setCondition call: <<>> or <<record>>
    typesSet,      \* the condition types set so far
    ncalls,        \* setCondition calls made
    disk,          \* the updater: the directory
    req,           \* the mutation asked for: file, yamlPath, newValue, imageTagOnly
    history,       \* the directory before each UpdateYAMLPath call
    errs,          \* what each UpdateYAMLPath call returned
    seen,          \* what GetValueAtPath returned after the last call: <<>> or <<[err, val]>>
    typed,         \* the path expression typed so far
    verdict,       \* <<>> or <<ValidateYAMLPath's answer for typed>>
    steps,         \* <<>> or <<parsePath's answer for typed>>
    listed,        \* the last GetLatestTag call: <<>> or <<[aws, images, filter]>>
    resolved,      \* <<>> or <<GetLatestTag's answer for listed>>
    lookups        \* GetLatestTag calls made

controllerVars ==
    <<stored, remote, pushed, pc, got, yukConfig, now, checkInterval, latestTag, tagErr, repoPath,
      head, idx, err, ran, attempted, conflict, result, exit, calls, fetched, wrote, passes, edits>>
condVars == <<conds, before, lastCall, typesSet, ncalls>>
yamlVars == <<disk, req, history, errs, seen>>
pathVars == <<typed, verdict, steps>>
ecrVars == <<listed, resolved, lookups>>
benchVars == <<condVars, yamlVars, pathVars, ecrVars>>

vars == <<controllerVars, benchVars>>

passVars == <<now, checkInterval, latestTag, tagErr>>
gitVars == <<remote, pushed, repoPath, head, idx, err, ran, attempted>>
envVars == <<stored, conflict, edits>>

\* Reconcile's yukConfig before r.Get fills it
ZeroConfig == [Generation |-> 0, Spec |-> BaseSpec, Status |-> ZeroStatus]

\* the benches at rest
CondIdle ==
    /\ conds = <<>>
    /\ before = <<>>
    /\ lastCall = <<>>
    /\ typesSet = {}
    /\ ncalls = 0
YamlIdle ==
    /\ disk = InitialRemote
    /\ req = [file |-> DeploymentFile, yamlPath |-> PathImage, newValue |-> Tag1,
               imageTagOnly |-> FALSE]
    /\ history = <<>>
    /\ errs = <<>>
    /\ seen = <<>>
PathIdle ==
    /\ typed = <<>>
    /\ verdict = <<>>
    /\ steps = <<>>
EcrIdle ==
    /\ listed = <<>>
    /\ resolved = <<>>
    /\ lookups = 0

\* the worker before its first pass
ControllerIdle ==
    /\ remote = InitialRemote
    /\ pushed = <<>>
    /\ pc = "idle"
    /\ got = ""
    /\ yukConfig = ZeroConfig
    /\ now = 0
    /\ checkInterval = 0
    /\ latestTag = <<>>
    /\ tagErr = ""
    /\ repoPath = <<>>
    /\ head = remote
    /\ idx = 1
    /\ err = ""
    /\ ran = <<>>
    /\ attempted = <<>>
    /\ conflict = FALSE
    /\ result = NoResult
    /\ exit = ""
    /\ calls = <<>>
    /\ fetched = ZeroStatus
    /\ wrote = <<>>
    /\ passes = 0
    /\ edits = 0

Init ==
    /\ stored \in {[exists |-> e, Generation |-> 1, Spec |-> d, Status |-> ZeroStatus] :
                     e \in BOOLEAN, d \in Descriptors}
    /\ (~stored.exists) => stored.Spec = BaseSpec
    /\ ControllerIdle
    /\ CondIdle
    /\ YamlIdle
    /\ PathIdle
    /\ EcrIdle

\* mutant: the record is appended whether or not the type is there
setConditionAppend(conditions, conditionType, status, reason, message, t) ==
    Append(conditions,
           [ Type |-> conditionType, Status |-> status, LastTransitionTime |-> t,
             Reason |-> reason, Message |-> message ])

\* mutant: the transition time is stamped on every call
setConditionStamps(conditions, conditionType, status, reason, message, t) ==
    LET hits == {i \in 1..Len(conditions) : conditions[i].Type = conditionType}
        condition ==
            [ Type |-> conditionType, Status |-> status, LastTransitionTime |-> t,
              Reason |-> reason, Message |-> message ]
    IN  IF hits # {}
        THEN [conditions EXCEPT ![CHOOSE j \in hits : \A h \in hits : j <= h] = condition]
        ELSE Append(conditions, condition)

\* setCondition at clock reading t: the new Conditions list
setCondition(conditions, conditionType, status, reason, message, t) ==
    LET hits == {i \in 1..Len(conditions) : conditions[i].Type = conditionType}
        condition(ltt) ==
            [ Type |-> conditionType, Status |-> status, LastTransitionTime |-> ltt,
              Reason |-> reason, Message |-> message ]
    IN  IF hits # {}
        THEN LET i == CHOOSE j \in hits : \A h \in hits : j <= h
             IN  [conditions EXCEPT ![i] =
                    condition(IF conditions[i].Status # status
                              THEN t ELSE conditions[i].LastTransitionTime)]
        ELSE Append(conditions, condition(t))

\* mutant: the not-found answer is not told from the other errors
IsNotFoundNever(answer) == FALSE

\* errors.IsNotFound on r.Get's answer
IsNotFound(answer) == answer = "NotFound"

\* mutant: the disabled flag counts only for an object never checked
IsDisabledUnchecked(cfg) == cfg.Spec.Disabled /\ cfg.Status.LastChecked = <<>>

\* if yukConfig.Spec.Disabled
IsDisabled(cfg) == cfg.Spec.Disabled

\* checkInterval: spec.checkInterval or the default
CheckIntervalOf(cfg) ==
    IF cfg.Spec.CheckInterval # <<>> THEN cfg.Spec.CheckInterval[1] ELSE DefaultCheckInterval

\* mutant: a check exactly one interval after the last one is still too early
TooEarlyInclusive(cfg, t, ci) ==
    cfg.Status.LastChecked # <<>> /\ t - cfg.Status.LastChecked[1] <= ci

\* mutant: a clock that reads earlier than LastChecked is let through the gate
TooEarlyForwardOnly(cfg, t, ci) ==
    /\ cfg.Status.LastChecked # <<>>
    /\ t - cfg.Status.LastChecked[1] >= 0
    /\ t - cfg.Status.LastChecked[1] < ci

\* the interval gate: LastChecked is set and timeSinceLastCheck < checkInterval
TooEarly(cfg, t, ci) ==
    cfg.Status.LastChecked # <<>> /\ t - cfg.Status.LastChecked[1] < ci

\* mutant: the gate reschedules after the whole interval
NextCheckWhole(cfg, t, ci) == ci

\* nextCheck := checkInterval - timeSinceLastCheck
NextCheck(cfg, t, ci) == ci - (t - cfg.Status.LastChecked[1])

\* the stamp: LastChecked = &now, ObservedGeneration = Generation
Stamped(cfg, t) ==
    [cfg EXCEPT !.Status.LastChecked = <<t>>, !.Status.ObservedGeneration = cfg.Generation]

\* mutant: the resolver's failure is reported with the reason of a failed update
RepositoryFailedAsUpdate(cfg, e, t) ==
    [cfg EXCEPT !.Status.Conditions = setCondition(@, "Ready", "False", "UpdateError", e, t)]

\* mutant: the failure is recorded on the status as it was fetched, the stamp lost
RepositoryFailedUnstamped(cfg, e, t) ==
    [cfg EXCEPT !.Status.LastChecked = <<>>,
                !.Status.ObservedGeneration = 0,
                !.Status.Conditions = setCondition(@, "Ready", "False", "RepositoryError", e, t)]

\* the resolver failed with e
RepositoryFailed(cfg, e, t) ==
    [cfg EXCEPT !.Status.Conditions = setCondition(@, "Ready", "False", "RepositoryError", e, t)]

\* yukConfig.Status.LatestTag = latestTag
WithLatestTag(cfg, tag) == [cfg EXCEPT !.Status.LatestTag = tag]

\* mutant: the files are updated whether or not the tag changed
NeedsUpdateAlways(cfg, tag) == TRUE

\* if yukConfig.Status.CurrentTag != latestTag
NeedsUpdate(cfg, tag) == cfg.Status.CurrentTag # tag

\* mutant: a failed update still records the resolved tag as current
UpdateFailedButCurrent(cfg, e, t) ==
    [cfg EXCEPT !.Status.CurrentTag = cfg.Status.LatestTag,
                !.Status.Conditions = setCondition(@, "Ready", "False", "UpdateError", e, t)]

\* updateFiles failed with e
UpdateFailed(cfg, e, t) ==
    [cfg EXCEPT !.Status.Conditions = setCondition(@, "Ready", "False", "UpdateError", e, t)]

\* mutant: the update is dated but the tag is not recorded as current
UpdatedUnrecorded(cfg, tag, t) ==
    [cfg EXCEPT !.Status.LastUpdate = <<t>>]

\* updateFiles succeeded: CurrentTag = latestTag, LastUpdate = &now
Updated(cfg, tag, t) ==
    [cfg EXCEPT !.Status.CurrentTag = tag, !.Status.LastUpdate = <<t>>]

\* the Ready condition of the end of a pass
Synchronized(cfg, t) ==
    [cfg EXCEPT !.Status.Conditions =
        setCondition(@, "Ready", "True", "Synchronized", "synchronized", t)]

\* the result of the pass once Status().Update answered: the two error returns
\* carry RequeueAfter with updateStatus' error, the last one does not
ResultAfterWrite(how, ok, ci) ==
    IF how \in {"RepositoryError", "UpdateError"}
    THEN [RequeueAfter |-> ci, err |-> IF ok THEN "" ELSE "status update failed", exit |-> how]
    ELSE IF ~ok
    THEN [RequeueAfter |-> 0, err |-> "status update failed", exit |-> "StatusError"]
    ELSE [RequeueAfter |-> ci, err |-> "", exit |-> how]

\* the pass returns: Reconcile's return statements
Return(res, e, how) ==
    /\ pc' = "done"
    /\ result' = [RequeueAfter |-> res, err |-> e]
    /\ exit' = how

\* r.Get and the not-found and error returns
Fetch ==
    /\ pc = "idle"
    /\ passes < MaxPasses
    /\ passes' = passes + 1
    /\ calls' = <<"Get">>
    /\ conflict' = FALSE
    /\ \E answer \in {"ok", "NotFound", "Unavailable"} :
         /\ (answer = "NotFound") = ~stored.exists
         /\ got' = answer
         /\ IF answer # "ok"
            THEN /\ IF IsNotFound(answer)
                    THEN Return(0, "", "NotFound")
                    ELSE Return(0, "get failed", "GetError")
                 /\ UNCHANGED <<yukConfig, fetched>>
            ELSE /\ yukConfig' = [Generation |-> stored.Generation, Spec |-> stored.Spec,
                                  Status |-> stored.Status]
                 /\ fetched' = stored.Status
                 /\ pc' = "GateDisabled"
                 /\ UNCHANGED <<result, exit>>
    /\ UNCHANGED <<benchVars, stored, edits, wrote, passVars, gitVars>>

\* the disabled gate
GateDisabled ==
    /\ pc = "GateDisabled"
    /\ IF IsDisabled(yukConfig)
       THEN Return(0, "", "Disabled")
       ELSE pc' = "GateInterval" /\ UNCHANGED <<result, exit>>
    /\ UNCHANGED <<benchVars, envVars, got, passVars, gitVars, yukConfig, calls, fetched, wrote, passes>>

\* the check interval, the clock reading, the interval gate and the stamp
GateInterval ==
    /\ pc = "GateInterval"
    /\ \E t \in Times :
         LET ci == CheckIntervalOf(yukConfig)
         IN  /\ now' = t
             /\ checkInterval' = ci
             /\ IF TooEarly(yukConfig, t, ci)
                THEN /\ Return(NextCheck(yukConfig, t, ci), "", "TooEarly")
                     /\ UNCHANGED yukConfig
                ELSE /\ yukConfig' = Stamped(yukConfig, t)
                     /\ pc' = "ResolveTag"
                     /\ UNCHANGED <<result, exit>>
    /\ UNCHANGED <<benchVars, envVars, got, latestTag, tagErr, gitVars, calls, fetched, wrote, passes>>

\* mutant: the error of a resolver that was called is not looked at
ResolveTagProceeds ==
    /\ pc = "ResolveTag"
    /\ \E aws \in {"ok", "describe images failed"}, images \in ImageLists :
         LET repo == yukConfig.Spec.Repository
             called == repo.Type = "ecr" /\ repo.ECR # <<>>
             r == IF repo.Type # "ecr" THEN [err |-> "unsupported repository type", tag |-> <<>>]
                  ELSE IF repo.ECR = <<>> THEN [err |-> "ECR configuration is required", tag |-> <<>>]
                  ELSE GetLatestTag(aws, images, repo.ECR[1].TagFilter)
         IN  /\ calls' = IF called THEN Append(calls, "GetLatestTag") ELSE calls
             /\ latestTag' = r.tag
             /\ tagErr' = r.err
             /\ IF r.err # "" /\ ~called
                THEN /\ yukConfig' = RepositoryFailed(yukConfig, r.err, now)
                     /\ exit' = "RepositoryError"
                     /\ pc' = "UpdateStatus"
                ELSE IF NeedsUpdate(WithLatestTag(yukConfig, r.tag), r.tag)
                THEN /\ yukConfig' = WithLatestTag(yukConfig, r.tag)
                     /\ pc' = "Clone"
                     /\ UNCHANGED exit
                ELSE /\ yukConfig' = Synchronized(WithLatestTag(yukConfig, r.tag), now)
                     /\ exit' = "Synchronized"
                     /\ pc' = "UpdateStatus"
    /\ UNCHANGED <<benchVars, envVars, got, now, checkInterval, gitVars, result, fetched, wrote, passes>>

\* the repository switch, the resolver call and the comparison with CurrentTag
ResolveTag ==
    /\ pc = "ResolveTag"
    /\ \E aws \in {"ok", "describe images failed"}, images \in ImageLists :
         LET repo == yukConfig.Spec.Repository
             called == repo.Type = "ecr" /\ repo.ECR # <<>>
             r == IF repo.Type # "ecr" THEN [err |-> "unsupported repository type", tag |-> <<>>]
                  ELSE IF repo.ECR = <<>> THEN [err |-> "ECR configuration is required", tag |-> <<>>]
                  ELSE GetLatestTag(aws, images, repo.ECR[1].TagFilter)
         IN  /\ calls' = IF called THEN Append(calls, "GetLatestTag") ELSE calls
             /\ latestTag' = r.tag
             /\ tagErr' = r.err
             /\ IF r.err # ""
                THEN /\ yukConfig' = RepositoryFailed(yukConfig, r.err, now)
                     /\ exit' = "RepositoryError"
                     /\ pc' = "UpdateStatus"
                ELSE IF NeedsUpdate(WithLatestTag(yukConfig, r.tag), r.tag)
                THEN /\ yukConfig' = WithLatestTag(yukConfig, r.tag)
                     /\ pc' = "Clone"
                     /\ UNCHANGED exit
                ELSE /\ yukConfig' = Synchronized(WithLatestTag(yukConfig, r.tag), now)
                     /\ exit' = "Synchronized"
                     /\ pc' = "UpdateStatus"
    /\ UNCHANGED <<benchVars, envVars, got, now, checkInterval, gitVars, result, fetched, wrote, passes>>

\* Reconcile after updateFiles returned e
AfterUpdateFiles(e) ==
    /\ yukConfig' = IF e # "" THEN UpdateFailed(yukConfig, e, now)
                    ELSE Synchronized(Updated(yukConfig, latestTag, now), now)
    /\ exit' = IF e # "" THEN "UpdateError" ELSE "Synchronized"
    /\ pc' = "UpdateStatus"

\* gitClient.Clone: the temporary directory, the authenticated URL, git clone
\* and the git user; every failure removes the directory before it returns
Clone ==
    /\ pc = "Clone"
    /\ calls' = Append(calls, "Clone")
    /\ \E outcome \in {"ok", "mkdir", "token", "clone", "config"} :
         /\ outcome = "token" => yukConfig.Spec.Git.PersonalAccessTokenRef
         /\ IF outcome = "ok"
            THEN /\ repoPath' = <<remote>>
                 /\ head' = remote
                 /\ idx' = 1
                 /\ err' = ""
                 /\ pc' = "UpdateTargets"
                 /\ UNCHANGED <<yukConfig, exit>>
            ELSE /\ err' = "failed to clone repository"
                 /\ AfterUpdateFiles("failed to clone repository")
                 /\ UNCHANGED <<repoPath, head, idx>>
    /\ UNCHANGED <<benchVars, envVars, got, ran, attempted, remote, pushed, passVars, result, fetched, wrote, passes>>

\* mutant: the loop goes on to the next target after a failed one
UpdateTargetsContinue ==
    /\ pc = "UpdateTargets"
    /\ IF idx > Len(yukConfig.Spec.UpdateTargets)
       THEN /\ pc' = IF err = "" THEN "CommitAndPush" ELSE "Cleanup"
            /\ UNCHANGED <<repoPath, idx, err, calls, attempted>>
       ELSE LET target == yukConfig.Spec.UpdateTargets[idx]
            IN  /\ calls' = Append(calls, "UpdateYAMLPath")
                /\ attempted' = Append(attempted, target)
                /\ \E fault \in IOFaults :
                     LET r == UpdateYAMLPath(repoPath[1], target.File, target.YAMLPath,
                                             latestTag, target.ImageTagOnly, fault)
                     IN  /\ repoPath' = <<r.dir>>
                         /\ idx' = idx + 1
                         /\ pc' = "UpdateTargets"
                         /\ err' = IF r.err # "" THEN "failed to update file" ELSE err
    /\ UNCHANGED <<benchVars, envVars, got, ran, remote, pushed, head, passVars, yukConfig, result, exit,
                   fetched, wrote, passes>>

\* one round of the loop over spec.updateTargets
UpdateTargets ==
    /\ pc = "UpdateTargets"
    /\ IF idx > Len(yukConfig.Spec.UpdateTargets)
       THEN /\ pc' = "CommitAndPush"
            /\ UNCHANGED <<repoPath, idx, err, calls, attempted>>
       ELSE LET target == yukConfig.Spec.UpdateTargets[idx]
            IN  /\ calls' = Append(calls, "UpdateYAMLPath")
                /\ attempted' = Append(attempted, target)
                /\ \E fault \in IOFaults :
                     LET r == UpdateYAMLPath(repoPath[1], target.File, target.YAMLPath,
                                             latestTag, target.ImageTagOnly, fault)
                     IN  /\ repoPath' = <<r.dir>>
                         /\ IF r.err # ""
                            THEN /\ err' = "failed to update file"
                                 /\ pc' = "Cleanup"
                                 /\ UNCHANGED idx
                            ELSE /\ idx' = idx + 1
                                 /\ pc' = "UpdateTargets"
                                 /\ UNCHANGED err
    /\ UNCHANGED <<benchVars, envVars, got, ran, remote, pushed, head, passVars, yukConfig, result, exit,
                   fetched, wrote, passes>>

\* mutant: git commit is run without asking git diff whether anything is
\* staged; with nothing staged it fails
CommitAndPushAlways ==
    /\ pc = "CommitAndPush"
    /\ calls' = Append(calls, "CommitAndPush")
    /\ \E outcome \in {"ok", "add", "commit", "push"} :
         /\ outcome \in {"commit", "push"} => repoPath[1] # head
         /\ IF outcome = "add"
            THEN /\ err' = "failed to commit and push changes"
                 /\ ran' = <<"add">>
                 /\ UNCHANGED <<remote, pushed, head>>
            ELSE IF repoPath[1] = head \/ outcome = "commit"
            THEN /\ err' = "failed to commit and push changes"
                 /\ ran' = <<"add", "commit">>
                 /\ UNCHANGED <<remote, pushed, head>>
            ELSE IF outcome = "push"
            THEN /\ err' = "failed to commit and push changes"
                 /\ ran' = <<"add", "commit", "push">>
                 /\ UNCHANGED <<remote, pushed, head>>
            ELSE /\ remote' = repoPath[1]
                 /\ pushed' = Append(pushed, latestTag)
                 /\ ran' = <<"add", "commit", "push">>
                 /\ UNCHANGED <<head, err>>
    /\ pc' = "Cleanup"
    /\ UNCHANGED <<benchVars, envVars, got, repoPath, idx, attempted, passVars, yukConfig,
                   result, exit, fetched, wrote, passes>>

\* gitClient.CommitAndPush: git add, git diff --cached --quiet (which returns
\* nil when nothing is staged), git commit, git push
CommitAndPush ==
    /\ pc = "CommitAndPush"
    /\ calls' = Append(calls, "CommitAndPush")
    /\ \E outcome \in {"ok", "add", "commit", "push"} :
         /\ outcome \in {"commit", "push"} => repoPath[1] # head
         /\ IF outcome = "add"
            THEN /\ err' = "failed to commit and push changes"
                 /\ ran' = <<"add">>
                 /\ UNCHANGED <<remote, pushed, head>>
            ELSE IF repoPath[1] = head
            THEN /\ ran' = <<"add", "diff">>
                 /\ UNCHANGED <<remote, pushed, head, err>>
            ELSE IF outcome = "commit"
            THEN /\ err' = "failed to commit and push changes"
                 /\ ran' = <<"add", "diff", "commit">>
                 /\ UNCHANGED <<remote, pushed, head>>
            ELSE IF outcome = "push"
            THEN /\ err' = "failed to commit and push changes"
                 /\ ran' = <<"add", "diff", "commit", "push">>
                 /\ UNCHANGED <<remote, pushed, head>>
            ELSE /\ remote' = repoPath[1]
                 /\ pushed' = Append(pushed, latestTag)
                 /\ ran' = <<"add", "diff", "commit", "push">>
                 /\ UNCHANGED <<head, err>>
    /\ pc' = "Cleanup"
    /\ UNCHANGED <<benchVars, envVars, got, repoPath, idx, attempted, passVars, yukConfig,
                   result, exit, fetched, wrote, passes>>

\* mutant: Cleanup is called at the end of updateFiles instead of being deferred,
\* so an error return leaves the checkout behind
CleanupOnSuccessOnly ==
    /\ pc = "Cleanup"
    /\ calls' = Append(calls, "Cleanup")
    /\ repoPath' = IF err = "" THEN <<>> ELSE repoPath
    /\ AfterUpdateFiles(err)
    /\ UNCHANGED <<benchVars, envVars, got, ran, attempted, remote, pushed, head, idx, err, passVars, result, fetched, wrote,
                   passes>>

\* the deferred gitClient.Cleanup, then Reconcile's handling of updateFiles' result
Cleanup ==
    /\ pc = "Cleanup"
    /\ calls' = Append(calls, "Cleanup")
    /\ repoPath' = <<>>
    /\ AfterUpdateFiles(err)
    /\ UNCHANGED <<benchVars, envVars, got, ran, attempted, remote, pushed, head, idx, err, passVars, result, fetched, wrote,
                   passes>>

\* mutant: the return after the failed update's status write is missing, so the
\* pass goes on to the end of Reconcile and writes the status again
UpdateStatusFallsThrough ==
    /\ pc = "UpdateStatus"
    /\ calls' = Append(calls, "StatusUpdate")
    /\ \E apiError \in BOOLEAN :
         LET ok == stored.exists /\ ~conflict /\ ~apiError
             r  == ResultAfterWrite(exit, ok, checkInterval)
         IN  /\ wrote' = << [Status |-> yukConfig.Status, ok |-> ok] >>
             /\ stored' = IF ok THEN [stored EXCEPT !.Status = yukConfig.Status] ELSE stored
             /\ IF exit = "UpdateError"
                THEN /\ yukConfig' = Synchronized(Updated(yukConfig, latestTag, now), now)
                     /\ exit' = "Synchronized"
                     /\ pc' = "UpdateStatus"
                     /\ UNCHANGED result
                ELSE /\ Return(r.RequeueAfter, r.err, r.exit)
                     /\ UNCHANGED yukConfig
    /\ UNCHANGED <<benchVars, conflict, edits, got, passVars, gitVars, fetched, passes>>

\* updateStatus (r.Status().Update) and the return that follows it
UpdateStatus ==
    /\ pc = "UpdateStatus"
    /\ calls' = Append(calls, "StatusUpdate")
    /\ \E apiError \in BOOLEAN :
         LET ok == stored.exists /\ ~conflict /\ ~apiError
             r  == ResultAfterWrite(exit, ok, checkInterval)
         IN  /\ wrote' = << [Status |-> yukConfig.Status, ok |-> ok] >>
             /\ stored' = IF ok THEN [stored EXCEPT !.Status = yukConfig.Status] ELSE stored
             /\ Return(r.RequeueAfter, r.err, r.exit)
    /\ UNCHANGED <<benchVars, conflict, edits, got, passVars, gitVars, yukConfig, fetched, passes>>

\* Reconcile has returned and its locals are gone; the work queue may hand the
\* identity to the worker again
Requeue ==
    /\ pc = "done"
    /\ pc' = "idle"
    /\ got' = ""
    /\ yukConfig' = ZeroConfig
    /\ now' = 0
    /\ checkInterval' = 0
    /\ latestTag' = <<>>
    /\ tagErr' = ""
    /\ head' = remote
    /\ idx' = 1
    /\ err' = ""
    /\ ran' = <<>>
    /\ attempted' = <<>>
    /\ result' = NoResult
    /\ exit' = ""
    /\ calls' = <<>>
    /\ fetched' = ZeroStatus
    /\ wrote' = <<>>
    /\ UNCHANGED <<benchVars, envVars, remote, pushed, repoPath, passes>>

\* the owner of the object sets or clears spec.disabled
SetDisabled ==
    /\ stored.exists
    /\ edits < MaxEdits
    /\ edits' = edits + 1
    /\ stored' = [stored EXCEPT !.Spec.Disabled = ~@, !.Generation = @ + 1]
    /\ conflict' = (pc \notin {"idle", "done"})
    /\ UNCHANGED <<benchVars, gitVars, pc, got, passVars, yukConfig, result, exit, calls, fetched, wrote,
                   passes>>

\* the owner deletes the object
Delete ==
    /\ stored.exists
    /\ edits < MaxEdits
    /\ edits' = edits + 1
    /\ stored' = [stored EXCEPT !.exists = FALSE]
    /\ conflict' = (pc \notin {"idle", "done"})
    /\ UNCHANGED <<benchVars, gitVars, pc, got, passVars, yukConfig, result, exit, calls, fetched, wrote,
                   passes>>

Next ==
    \/ Fetch
    \/ GateDisabled
    \/ GateInterval
    \/ ResolveTag
    \/ Clone
    \/ UpdateTargets
    \/ CommitAndPush
    \/ Cleanup
    \/ UpdateStatus
    \/ Requeue
    \/ SetDisabled
    \/ Delete

Spec == Init /\ [][Next]_vars

(***************************************************************************)
(* The reconciler once its surroundings have settled.  After passes as in  *)
(* Spec, in which anything may fail, come passes in which the object is    *)
(* left alone, r.Get and Status().Update succeed, the resolver answers     *)
(* SettledTag, git and the file system do not fail, and the work queue     *)
(* hands the identity back when the returned RequeueAfter has passed.      *)
(***************************************************************************)
SettledTag == TagV

Settled == passes > MaxUnsettled

\* r.Get in a settled pass
SettledFetch ==
    /\ pc = "idle"
    /\ passes >= MaxUnsettled
    /\ passes < MaxUnsettled + MaxSettled
    /\ passes' = passes + 1
    /\ calls' = <<"Get">>
    /\ conflict' = FALSE
    /\ \E answer \in {"ok", "NotFound"} :
         /\ (answer = "NotFound") = ~stored.exists
         /\ got' = answer
         /\ IF IsNotFound(answer)
            THEN /\ Return(0, "", "NotFound")
                 /\ UNCHANGED <<yukConfig, fetched>>
            ELSE /\ yukConfig' = [Generation |-> stored.Generation, Spec |-> stored.Spec,
                                  Status |-> stored.Status]
                 /\ fetched' = stored.Status
                 /\ pc' = "GateDisabled"
                 /\ UNCHANGED <<result, exit>>
    /\ UNCHANGED <<benchVars, stored, edits, wrote, passVars, gitVars>>

\* the interval gate of a settled pass: the clock reads the time the last
\* RequeueAfter ran out, one interval after the stored LastChecked
SettledGate ==
    /\ pc = "GateInterval"
    /\ Settled
    /\ LET ci == CheckIntervalOf(yukConfig)
           t  == IF yukConfig.Status.LastChecked = <<>> THEN 0
                 ELSE yukConfig.Status.LastChecked[1] + ci
       IN  /\ now' = t
           /\ checkInterval' = ci
           /\ IF TooEarly(yukConfig, t, ci)
              THEN /\ Return(NextCheck(yukConfig, t, ci), "", "TooEarly")
                   /\ UNCHANGED yukConfig
              ELSE /\ yukConfig' = Stamped(yukConfig, t)
                   /\ pc' = "ResolveTag"
                   /\ UNCHANGED <<result, exit>>
    /\ UNCHANGED <<benchVars, envVars, got, latestTag, tagErr, gitVars, calls, fetched, wrote, passes>>

\* the other steps of a settled pass: those of Reconcile in which no
\* collaborator fails and the resolver answers SettledTag
SettledStep ==
    /\ Settled
    /\ \/ GateDisabled
       \/ ResolveTag
       \/ Clone
       \/ UpdateTargets
       \/ CommitAndPush
       \/ Cleanup
       \/ UpdateStatus
       \/ Requeue
    /\ tagErr' = ""
    /\ latestTag' \in {<<>>, SettledTag}
    /\ err' = ""
    /\ result'.err = ""
    /\ wrote' # <<>> => wrote'[1].ok

\* the steps of Spec, before the surroundings settle
Unsettled == Next /\ passes' <= MaxUnsettled

LiveNext ==
    \/ Unsettled
    \/ SettledFetch
    \/ SettledGate
    \/ SettledStep

\* a step of a pass outside the loop over the targets, or the hand-over of the
\* identity by the work queue
OutsideLoop == pc # "UpdateTargets" /\ LiveNext

\* the for loop over Spec.UpdateTargets is one call of updateFiles: it ends
LoopEnds == []<>(pc # "UpdateTargets")

\* the worker finishes the pass it started and the work queue hands the
\* identity back to it
LiveSpec == Init /\ [][LiveNext]_vars /\ WF_vars(OutsideLoop) /\ LoopEnds

(***************************************************************************)
(* setCondition on its own: calls of any type, status and reason, at any   *)
(* clock reading, on a condition list                                      *)
(***************************************************************************)
\* the object store while the worker never runs
IdleStore == [exists |-> FALSE, Generation |-> 1, Spec |-> BaseSpec, Status |-> ZeroStatus]

ConditionTypes == {"Ready", "Progressing"}
ConditionStatuses == {"True", "False"}
\* reason and message of a call
Reasons == { <<"Synchronized", "synchronized">>, <<"UpdateError", "failed to update">> }

Condition(type, status, reason, t) ==
    [ Type |-> type, Status |-> status, LastTransitionTime |-> t,
      Reason |-> reason[1], Message |-> reason[2] ]

\* the lists a sequence of calls may start from: no two records of one type
ConditionLists ==
    { <<>>,
      << Condition("Ready", "True", <<"Synchronized", "synchronized">>, 0) >>,
      << Condition("Progressing", "False", <<"UpdateError", "failed to update">>, 0),
         Condition("Ready", "False", <<"UpdateError", "failed to update">>, 1) >> }

CondInit ==
    /\ conds \in ConditionLists
    /\ before = conds
    /\ lastCall = <<>>
    /\ typesSet = {}
    /\ ncalls = 0
    /\ stored = IdleStore
    /\ ControllerIdle
    /\ YamlIdle
    /\ PathIdle
    /\ EcrIdle

\* one call of setCondition
SetCondition ==
    /\ ncalls < MaxCalls
    /\ \E type \in ConditionTypes, status \in ConditionStatuses, reason \in Reasons, t \in Times :
         /\ conds' = setCondition(conds, type, status, reason[1], reason[2], t)
         /\ lastCall' = << [Type |-> type, Status |-> status, Reason |-> reason[1],
                            Message |-> reason[2], t |-> t] >>
         /\ typesSet' = typesSet \cup {type}
    /\ before' = conds
    /\ ncalls' = ncalls + 1
    /\ UNCHANGED <<controllerVars, yamlVars, pathVars, ecrVars>>

CondNext == SetCondition

CondSpec == CondInit /\ [][CondNext]_vars

(***************************************************************************)
(* The updater on its own: one request applied to a directory, once and    *)
(* again, and read back                                                    *)
(***************************************************************************)
\* a second manifest: a map in a map holding an image with a registry port and
\* a tag and, under the key "0", an image; a list in a list, and an image
\* without a tag
Nested ==
    MapNode(<<"a">> :> MapNode(<<"b">> :> StrNode(<<"h", ":", "5", "/", "n", ":", "0">>)
                            @@ <<"0">> :> StrNode(<<"n">>))
         @@ <<"m">> :> SeqNode(<< SeqNode(<< StrNode(<<"n">>) >>) >>)
         @@ <<"x">> :> StrNode(<<"n">>))

BenchDirs ==
    { (DeploymentFile :> [yaml |-> TRUE, fmt |-> "orig", doc |-> Manifest]),
      (DeploymentFile :> [yaml |-> TRUE, fmt |-> "orig", doc |-> Nested]),
      (DeploymentFile :> [yaml |-> FALSE, fmt |-> "orig", doc |-> StrNode(<<>>)]) }

BenchFiles == {DeploymentFile, "missing.yaml"}

\* path expressions: well formed ones that lead somewhere in a manifest, or
\* stop on the way or at the end, and ill formed ones
BenchPaths ==
    { PathImage, PathFirst, PathSecond, PathCount,
      <<"z", ".", "b">>, <<"c", "[", "1", "]", ".", "b">>, <<"m", "[", "1", "]", "[", "0", "]">>,
      <<"c", ".", "b", ".", "d">>, <<"x", ".", "z", ".", "q">>,
      <<"a", "[", "0", "]">>,
      <<"a", ".", "b">>, <<"m", "[", "0", "]">>, <<"m", "[", "0", "]", "[", "0", "]">>, <<"x">>, <<"i", ".", "z">>,
      <<>>, <<"i", "-">>, <<"c", "[", "x", "]">>, <<"c", "[", "0">>, <<"a", ".", ".", "b">> }

\* new values: a tag, a string with a colon, the empty string
BenchValues == { Tag1, <<"a", ":", "b">>, <<>> }

YamlInit ==
    /\ disk \in BenchDirs
    /\ req \in [file : BenchFiles, yamlPath : BenchPaths, newValue : BenchValues,
                imageTagOnly : BOOLEAN]
    /\ history = <<>>
    /\ errs = <<>>
    /\ seen = <<>>
    /\ stored = IdleStore
    /\ ControllerIdle
    /\ CondIdle
    /\ PathIdle
    /\ EcrIdle

\* one call of UpdateYAMLPath with the request
Mutate ==
    /\ Len(errs) < MaxApply
    /\ \E fault \in IOFaults :
         LET r == UpdateYAMLPath(disk, req.file, req.yamlPath, req.newValue,
                                 req.imageTagOnly, fault)
         IN  /\ disk' = r.dir
             /\ errs' = Append(errs, r.err)
    /\ history' = Append(history, disk)
    /\ seen' = <<>>
    /\ UNCHANGED <<req, controllerVars, condVars, pathVars, ecrVars>>

\* one call of GetValueAtPath with the request's file and path
Read ==
    /\ seen = <<>>
    /\ seen' = << GetValueAtPath(disk, req.file, req.yamlPath) >>
    /\ UNCHANGED <<disk, req, history, errs, controllerVars, condVars, pathVars, ecrVars>>

YamlNext == Mutate \/ Read

YamlSpec == YamlInit /\ [][YamlNext]_vars

(***************************************************************************)
(* The path functions on their own: a path expression typed character by   *)
(* character, validated and parsed                                         *)
(***************************************************************************)
PathAlphabet == {"a", "0", "_", ".", "[", "]", "-"}

PathInit ==
    /\ typed = <<>>
    /\ verdict = <<>>
    /\ steps = <<>>
    /\ stored = IdleStore
    /\ ControllerIdle
    /\ CondIdle
    /\ YamlIdle
    /\ EcrIdle

TypeChar ==
    /\ Len(typed) < MaxLen
    /\ \E c \in PathAlphabet : typed' = Append(typed, c)
    /\ verdict' = <<>>
    /\ steps' = <<>>
    /\ UNCHANGED <<controllerVars, condVars, yamlVars, ecrVars>>

\* an index suffix typed at once
IndexDigits == {"0", "1"}

TypeIndex ==
    /\ Len(typed) < MaxLen
    /\ \E d \in IndexDigits : typed' = typed \o <<"[", d, "]">>
    /\ verdict' = <<>>
    /\ steps' = <<>>
    /\ UNCHANGED <<controllerVars, condVars, yamlVars, ecrVars>>

Validate ==
    /\ verdict = <<>>
    /\ verdict' = << ValidateYAMLPath(typed) >>
    /\ UNCHANGED <<typed, steps, controllerVars, condVars, yamlVars, ecrVars>>

Parse ==
    /\ steps = <<>>
    /\ steps' = << parsePath(typed) >>
    /\ UNCHANGED <<typed, verdict, controllerVars, condVars, yamlVars, ecrVars>>

PathNext == TypeChar \/ TypeIndex \/ Validate \/ Parse

PathSpec == PathInit /\ [][PathNext]_vars

(***************************************************************************)
(* The tag resolver on its own: GetLatestTag on any listing and filter     *)
(***************************************************************************)
Tag12 == <<"1", "2">>
TagV2 == <<"v", "2">>
Tag1V == <<"1", "v">>

\* what DescribeImages may list: ImageLists, an untagged image, and tags of
\* which one is part of another
EcrImageLists ==
    ImageLists \cup
    { << <<>> >>,
      << <<>>, << <<>>, Tag1 >> >>,
      << <<Tag1V>> >>,
      << <<Tag12, Tag1>> >>,
      << <<TagV>>, <<TagV2, Tag1V>> >> }

\* the tag filters: none, literals, anchored ones, and one that does not compile
EcrFilters ==
    { <<>>, <<"1">>, <<"v">>, <<"^", "v">>, <<"^", "1", "$">>, <<"2", "$">>,
      <<"^", "v", "1", "$">>, <<"x">>, <<"(">> }

EcrInit ==
    /\ EcrIdle
    /\ stored = IdleStore
    /\ ControllerIdle
    /\ CondIdle
    /\ YamlIdle
    /\ PathIdle

Lookup ==
    /\ lookups < MaxLookups
    /\ \E aws \in {"ok", "describe images failed"}, images \in EcrImageLists,
          f \in EcrFilters :
         /\ listed' = << [aws |-> aws, images |-> images, filter |-> f] >>
         /\ resolved' = << GetLatestTag(aws, images, f) >>
    /\ lookups' = lookups + 1
    /\ UNCHANGED <<controllerVars, condVars, yamlVars, pathVars>>

EcrNext == Lookup

EcrSpec == EcrInit /\ [][EcrNext]_vars

(***************************************************************************)
(* Properties of a reconciliation pass                                     *)
(***************************************************************************)
GitOps == {"Clone", "UpdateYAMLPath", "CommitAndPush", "Cleanup"}
Called(ops) == \E i \in 1..Len(calls) : calls[i] \in ops
\* the check interval a descriptor asks for
IntervalOfSpec(spec) ==
    IF spec.CheckInterval = <<>> THEN DefaultCheckInterval ELSE spec.CheckInterval[1]
\* the pass has fetched an enabled object and is past the interval gate's decision
PastGates ==
    got = "ok" /\ ~yukConfig.Spec.Disabled /\ pc \notin {"GateDisabled", "GateInterval"}

\* C1: a pass over an enabled object whose lastChecked is set and less than
\* checkInterval old returns RequeueAfter = checkInterval - elapsed and no
\* error, having called neither the resolver nor git, written no status and
\* left the stored status as it was.
C1_Early ==
    /\ PastGates
    /\ fetched.LastChecked # <<>>
    /\ now - fetched.LastChecked[1] < IntervalOfSpec(yukConfig.Spec)
C1_IntervalGate ==
    C1_Early =>
        /\ pc = "done"
        /\ result = [RequeueAfter |-> IntervalOfSpec(yukConfig.Spec)
                                        - (now - fetched.LastChecked[1]),
                     err |-> ""]
        /\ calls = <<"Get">>
        /\ wrote = <<>>
        /\ stored.Status = fetched
        /\ yukConfig.Status = fetched
C1_Witness ==
    C1_Early /\ pc = "done" /\ now > fetched.LastChecked[1] /\ result.RequeueAfter = 1

\* C2: a pass over an object with disabled = true, whatever its status holds,
\* returns no requeue and no error, having called neither the resolver nor
\* git and written no status.
C2_Disabled == got = "ok" /\ yukConfig.Spec.Disabled /\ pc # "GateDisabled"
C2_DisabledGate ==
    C2_Disabled =>
        /\ pc = "done"
        /\ result = NoResult
        /\ calls = <<"Get">>
        /\ wrote = <<>>
        /\ stored.Status = fetched
C2_Witness ==
    /\ C2_Disabled
    /\ pc = "done"
    /\ fetched.LastChecked # <<>>
    /\ fetched.CurrentTag # <<>>
    /\ fetched.Conditions # <<>>

\* C3: when r.Get answers not-found the pass returns no requeue and no error,
\* attempts no status write and calls neither the resolver nor git.
C3_NotFound ==
    got = "NotFound" =>
        /\ pc = "done"
        /\ result = NoResult
        /\ calls = <<"Get">>
        /\ wrote = <<>>
C3_Witness == got = "NotFound" /\ pc = "done" /\ stored.Status.CurrentTag # <<>>

\* the pass was not stopped by a gate: it stamped and went on to the resolver
Due ==
    /\ PastGates
    /\ ~(fetched.LastChecked # <<>>
          /\ now - fetched.LastChecked[1] < IntervalOfSpec(yukConfig.Spec))
\* the status has a Ready condition with this status value and reason
ReadyIs(status, value, reason) ==
    \E i \in 1..Len(status.Conditions) :
        /\ status.Conditions[i].Type = "Ready"
        /\ status.Conditions[i].Status = value
        /\ status.Conditions[i].Reason = reason
\* the pass handed its status to Status().Update, and the store holds it if
\* the update was accepted
Persisted ==
    /\ wrote # <<>>
    /\ wrote[1].Status = yukConfig.Status
    /\ wrote[1].ok => stored.Status = yukConfig.Status
\* the resolver answered a tag other than the current one and checkout, every
\* mutation, commit/push and the status write succeeded
ConvergedPass ==
    /\ pc = "done"
    /\ Due
    /\ tagErr = ""
    /\ latestTag # fetched.CurrentTag
    /\ err = ""
    /\ wrote # <<>> /\ wrote[1].ok
\* the part of an image reference before its last colon (all of it without one)
RepositoryPart(image) ==
    LET parts == Split(image, ":")
    IN  IF Len(parts) >= 2 THEN Join(SubSeq(parts, 1, Len(parts) - 1), ":") ELSE image
\* the value the claim expects in the committed file for a target
ExpectedAt(target) ==
    LET prev == GetValueAtPath(head, target.File, target.YAMLPath)
    IN  IF target.ImageTagOnly /\ prev.err = "" /\ prev.val.k = "str"
        THEN StrNode(RepositoryPart(prev.val.v) \o <<":">> \o latestTag)
        ELSE StrNode(latestTag)
CommittedAsExpected(target) ==
    LET cur == GetValueAtPath(remote, target.File, target.YAMLPath)
    IN  cur.err = "" /\ cur.val = ExpectedAt(target)
\* one of two paths leads to or through the slot of the other
IsPrefix(a, b) == Len(a) <= Len(b) /\ SubSeq(b, 1, Len(a)) = a
Overlap(t1, t2) ==
    /\ t1.File = t2.File
    /\ \/ IsPrefix(parsePath(t1.YAMLPath), parsePath(t2.YAMLPath))
       \/ IsPrefix(parsePath(t2.YAMLPath), parsePath(t1.YAMLPath))
StatusConverged ==
    /\ stored.Status.CurrentTag = latestTag
    /\ stored.Status.LatestTag = latestTag
    /\ stored.Status.LastUpdate = <<now>>
    /\ ReadyIs(stored.Status, "True", "Synchronized")
    /\ result = [RequeueAfter |-> IntervalOfSpec(yukConfig.Spec), err |-> ""]

C5_Failed == Due /\ pc # "ResolveTag" /\ tagErr # ""
C5_ResolverFailure ==
    C5_Failed =>
        /\ pc \in {"UpdateStatus", "done"}
        /\ ~Called(GitOps)
        /\ ReadyIs(yukConfig.Status, "False", "RepositoryError")
        /\ yukConfig.Status.LatestTag = fetched.LatestTag
        /\ yukConfig.Status.CurrentTag = fetched.CurrentTag
        /\ yukConfig.Status.LastUpdate = fetched.LastUpdate
        /\ pc = "done" =>
             /\ Persisted
             /\ result.RequeueAfter = IntervalOfSpec(yukConfig.Spec)
C5_Witness ==
    /\ C5_Failed
    /\ pc = "done"
    /\ wrote[1].ok
    /\ calls = <<"Get", "GetLatestTag", "StatusUpdate">>
    /\ fetched.CurrentTag # <<>>

\* C6: when the resolved tag differs from currentTag and the checkout, a target
\* mutation, the commit or the push fails, the status handed to the status
\* write has Ready false with reason UpdateError, latestTag = the resolved tag
\* and the currentTag and lastUpdate it fetched; the store holds it once the
\* write is accepted; and the pass returns RequeueAfter = checkInterval.
C6_Failed ==
    /\ Due
    /\ pc \in {"UpdateStatus", "done"}
    /\ tagErr = ""
    /\ latestTag # fetched.CurrentTag
    /\ err # ""
C6_ConvergeFailure ==
    C6_Failed =>
        /\ ReadyIs(yukConfig.Status, "False", "UpdateError")
        /\ yukConfig.Status.LatestTag = latestTag
        /\ yukConfig.Status.CurrentTag = fetched.CurrentTag
        /\ yukConfig.Status.LastUpdate = fetched.LastUpdate
        /\ pc = "done" =>
             /\ Persisted
             /\ result.RequeueAfter = IntervalOfSpec(yukConfig.Spec)
C6_Witness ==
    /\ C6_Failed
    /\ pc = "done"
    /\ wrote[1].ok
    /\ err = "failed to update file"
    /\ idx = 2

\* C7: when the resolved tag equals currentTag the pass goes to the status
\* write without checkout, file mutation or commit/push; the status it hands
\* over has Ready true with reason Synchronized and the currentTag and
\* lastUpdate it fetched; and once the write is accepted the store holds that
\* status and the pass returns RequeueAfter = checkInterval and no error.
C7_Same == Due /\ pc # "ResolveTag" /\ tagErr = "" /\ latestTag = fetched.CurrentTag
C7_AlreadyConverged ==
    C7_Same =>
        /\ pc \in {"UpdateStatus", "done"}
        /\ ~Called(GitOps)
        /\ remote = head
        /\ ReadyIs(yukConfig.Status, "True", "Synchronized")
        /\ yukConfig.Status.CurrentTag = fetched.CurrentTag
        /\ yukConfig.Status.LastUpdate = fetched.LastUpdate
        /\ pc = "done" =>
             /\ Persisted
             /\ wrote[1].ok =>
                  result = [RequeueAfter |-> IntervalOfSpec(yukConfig.Spec), err |-> ""]
C7_Witness == C7_Same /\ pc = "done" /\ wrote[1].ok /\ result.RequeueAfter = 2

\* C8: a pass that ends because a collaborator call failed (the resolver, the
\* checkout, a file mutation, commit/push or the status write, also the status
\* write that ends an otherwise successful pass) returns RequeueAfter =
\* checkInterval.
C8_FailureRequeues ==
    (/\ pc = "done"
     /\ Due
     /\ tagErr # "" \/ err # "" \/ (wrote # <<>> /\ ~wrote[1].ok))
    => result.RequeueAfter = IntervalOfSpec(yukConfig.Spec)

\* C9: a pass returns no requeue together with no error only for an object
\* that is disabled or was not found; a pass over an enabled, existing object
\* that returns no error returns a RequeueAfter above zero, whatever
\* checkInterval the object carries.
C9_TerminalSkip ==
    pc = "done" =>
        /\ result = NoResult =>
             got = "NotFound" \/ (got = "ok" /\ yukConfig.Spec.Disabled)
        /\ (got = "ok" /\ ~yukConfig.Spec.Disabled /\ result.err = "") =>
             result.RequeueAfter > 0

\* C10: a pass issues at most one status write; the write is its last
\* collaborator call, made after the checkout is removed; until it is made the
\* stored status is the one the pass fetched; and a pass that ends at Fetch,
\* at the disabled gate or at the interval gate makes none.
StatusWrites == {i \in 1..Len(calls) : calls[i] = "StatusUpdate"}
C10_SingleWrite ==
    /\ Cardinality(StatusWrites) <= 1
    /\ StatusWrites # {} =>
         /\ StatusWrites = {Len(calls)}
         /\ pc = "done"
         /\ repoPath = <<>>
    /\ (got = "ok" /\ StatusWrites = {}) => (wrote = <<>> /\ stored.Status = fetched)
    /\ (pc = "done" /\ (got # "ok" \/ yukConfig.Spec.Disabled \/ C1_Early)) =>
         StatusWrites = {}
    /\ (pc = "done" /\ Due) => Cardinality(StatusWrites) = 1
C10_Witness ==
    /\ pc = "done"
    /\ calls = <<"Get", "GetLatestTag", "Clone", "UpdateYAMLPath", "UpdateYAMLPath",
                 "CommitAndPush", "Cleanup", "StatusUpdate">>
    /\ wrote[1].ok
    /\ stored.Status # fetched
\* C11: outside the converge step there is no checkout directory: whichever way
\* updateFiles ended (a failed clone, a failed target mutation, a failed commit
\* or push, or success) the temporary directory is gone when the pass goes on
\* to its status write and when it returns, and a pass that mutated a file or
\* committed has called Cleanup.
C11_CheckoutReleased ==
    /\ pc \notin {"Clone", "UpdateTargets", "CommitAndPush", "Cleanup"} => repoPath = <<>>
    /\ (pc \in {"UpdateStatus", "done"} /\ Called({"Clone"})
          /\ err # "failed to clone repository") =>
         calls[IF pc = "done" THEN Len(calls) - 1 ELSE Len(calls)] = "Cleanup"
C11_Witness ==
    /\ pc = "done"
    /\ err = "failed to commit and push changes"
    /\ Called({"UpdateYAMLPath"})
    /\ repoPath = <<>>

(***************************************************************************)
(* Properties of setCondition                                              *)
(***************************************************************************)
\* the positions of the records of a type in a condition list
RecordsOf(list, type) == {i \in 1..Len(list) : list[i].Type = type}
TypesOf(list) == {list[i].Type : i \in 1..Len(list)}

\* C12: from a list with no two records of one type, after any sequence of
\* setCondition calls the list has at most one record per type and exactly one
\* for each type that was set.
C12_Unique ==
    /\ \A type \in TypesOf(conds) : Cardinality(RecordsOf(conds, type)) <= 1
    /\ \A type \in typesSet : Cardinality(RecordsOf(conds, type)) = 1
C12_Witness ==
    /\ ncalls >= 2
    /\ typesSet = ConditionTypes
    /\ lastCall[1].Type \in TypesOf(before)
    /\ Len(conds) = 2

\* C13: a call on a type that has a record with the same status keeps that
\* record's lastTransitionTime and overwrites its reason and message; a call
\* with another status, or on a type that has no record, leaves the record with
\* lastTransitionTime = the clock reading of the call.
C13_Transition ==
    lastCall # <<>> =>
        LET c   == lastCall[1]
            old == RecordsOf(before, c.Type)
            new == RecordsOf(conds, c.Type)
        IN  /\ new # {}
            /\ \A n \in new :
                 /\ conds[n].Status = c.Status
                 /\ conds[n].Reason = c.Reason
                 /\ conds[n].Message = c.Message
                 /\ conds[n].LastTransitionTime =
                      IF \E o \in old : before[o].Status = c.Status
                      THEN before[CHOOSE o \in old : TRUE].LastTransitionTime
                      ELSE c.t
C13_Witness ==
    /\ lastCall # <<>>
    /\ \E o \in RecordsOf(before, lastCall[1].Type) :
         /\ before[o].Status = lastCall[1].Status
         /\ before[o].LastTransitionTime # lastCall[1].t
         /\ before[o].Reason # lastCall[1].Reason
         /\ conds[o].LastTransitionTime = before[o].LastTransitionTime
         /\ conds[o].Reason = lastCall[1].Reason

(***************************************************************************)
(* Properties of the updater.  The reading of a path expression that the   *)
(* properties speak of is the grammar's: expr := segment ("." segment)*,   *)
(* segment := identifier ("[" digits "]")*, a key step for each identifier *)
(* and an index step for each bracket pair.                                *)
(***************************************************************************)
IsIdentifier(s) ==
    /\ s # <<>>
    /\ s[1] \in LetterChars \cup {"_"}
    /\ \A i \in 1..Len(s) : s[i] \in WordChars

RECURSIVE IsBrackets(_)
IsBrackets(s) ==
    \/ s = <<>>
    \/ \E k \in 3..Len(s) :
         /\ s[1] = "["
         /\ s[k] = "]"
         /\ \A i \in 2..(k - 1) : s[i] \in DigitChars
         /\ IsBrackets(SubSeq(s, k + 1, Len(s)))

IsSegment(s) ==
    \E j \in 1..Len(s) : IsIdentifier(SubSeq(s, 1, j)) /\ IsBrackets(SubSeq(s, j + 1, Len(s)))

InGrammar(p) ==
    LET segs == Split(p, ".") IN \A i \in 1..Len(segs) : IsSegment(segs[i])

RECURSIVE IndexSteps(_)
\* the index steps of a run of bracket pairs
IndexSteps(s) ==
    IF s = <<>> THEN <<>>
    ELSE LET k == CHOOSE j \in 1..Len(s) : s[j] = "]" /\ \A i \in 1..(j - 1) : s[i] # "]"
         IN  << [kind |-> "index", at |-> DigitsValue(SubSeq(s, 2, k - 1), 0)] >>
               \o IndexSteps(SubSeq(s, k + 1, Len(s)))

SegmentSteps(seg) ==
    LET j == CHOOSE n \in 1..(Len(seg) + 1) :
                 /\ n > Len(seg) \/ seg[n] = "["
                 /\ \A i \in 1..(n - 1) : seg[i] # "["
    IN  << [kind |-> "key", at |-> SubSeq(seg, 1, j - 1)] >>
          \o IndexSteps(SubSeq(seg, j, Len(seg)))

RECURSIVE StepsOfSegments(_)
StepsOfSegments(segs) ==
    IF segs = <<>> THEN <<>> ELSE SegmentSteps(Head(segs)) \o StepsOfSegments(Tail(segs))

\* the steps of a path expression of the grammar
GrammarSteps(p) == StepsOfSegments(Split(p, "."))

RECURSIVE Resolve(_, _, _)
\* following the steps from i on: a key step needs a map with the key, an index
\* step a sequence with the index
Resolve(node, st, i) ==
    IF i > Len(st) THEN [ok |-> TRUE, val |-> node]
    ELSE IF st[i].kind = "key" /\ node.k = "map"
    THEN IF st[i].at \in DOMAIN node.v
         THEN Resolve(node.v[st[i].at], st, i + 1) ELSE [ok |-> FALSE, val |-> node]
    ELSE IF st[i].kind = "index" /\ node.k = "seq"
    THEN IF st[i].at < Len(node.v)
         THEN Resolve(node.v[st[i].at + 1], st, i + 1) ELSE [ok |-> FALSE, val |-> node]
    ELSE [ok |-> FALSE, val |-> node]

\* p is a path of the grammar that leads to a value of the document in file
Present(dir, file, p) ==
    /\ file \in DOMAIN dir
    /\ dir[file].yaml
    /\ InGrammar(p)
    /\ Resolve(dir[file].doc, GrammarSteps(p), 1).ok

\* the value p leads to
SlotOf(dir, file, p) == Resolve(dir[file].doc, GrammarSteps(p), 1).val

\* the directory after the k-th call, and what reading the request's path gives
After(k) == IF k < Len(history) THEN history[k + 1] ELSE disk
ValueAfter(k) == GetValueAtPath(After(k), req.file, req.yamlPath)
\* the k-th call did not fail in yaml.Marshal or os.WriteFile
NoIOFault(k) == errs[k] \notin {"marshal", "write"}

\* C14: for a path of the grammar that leads to a value of the document,
\* UpdateYAMLPath with imageTagOnly = false succeeds, and GetValueAtPath then
\* returns the new value.
C14_RoundTrip ==
    (/\ Len(errs) >= 1
     /\ ~req.imageTagOnly
     /\ Present(history[1], req.file, req.yamlPath)
     /\ NoIOFault(1))
    => /\ errs[1] = ""
       /\ ValueAfter(1) = [err |-> "", val |-> StrNode(req.newValue)]

LastIndexOf(s, c) ==
    IF \E i \in 1..Len(s) : s[i] = c
    THEN CHOOSE i \in 1..Len(s) : s[i] = c /\ \A j \in (i + 1)..Len(s) : s[j] # c
    ELSE 0
\* the request was a tag-only rewrite of a string, and the first call succeeded
TagOnlyDone ==
    /\ Len(errs) >= 1
    /\ errs[1] = ""
    /\ req.imageTagOnly
    /\ GetValueAtPath(history[1], req.file, req.yamlPath).err = ""
    /\ GetValueAtPath(history[1], req.file, req.yamlPath).val.k = "str"
ImageBefore == GetValueAtPath(history[1], req.file, req.yamlPath).val.v

\* C15: the tag-only rewrite of A:B (B the text after the last colon, A with no
\* colon after its last '/') with new tag C gives A:C, and the rewrite of a
\* string with no colon gives the string, ':' and C.
C15_TagOnly ==
    TagOnlyDone =>
        LET c == LastIndexOf(ImageBefore, ":")
            A == SubSeq(ImageBefore, 1, c - 1)
        IN  /\ ValueAfter(1).err = ""
            /\ c = 0 => ValueAfter(1).val = StrNode(ImageBefore \o <<":">> \o req.newValue)
            /\ (c > 0 /\ LastIndexOf(A, ":") <= LastIndexOf(A, "/")) =>
                 ValueAfter(1).val = StrNode(A \o <<":">> \o req.newValue)
C15_Witness ==
    /\ TagOnlyDone
    /\ ImageBefore = <<"h", ":", "5", "/", "n", ":", "0">>
    /\ req.newValue = Tag1
    /\ ValueAfter(1).val = StrNode(<<"h", ":", "5", "/", "n", ":", "1">>)

\* the registry and image name of an image reference: the text before the tag,
\* the tag being what follows a colon that comes after the last '/'
ImageName(image) ==
    IF LastIndexOf(image, ":") > LastIndexOf(image, "/")
    THEN SubSeq(image, 1, LastIndexOf(image, ":") - 1)
    ELSE image

\* C16: with imageTagOnly = true the new value of an image reference, with or
\* without registry host, registry port or tag, is its registry and image name
\* followed by ':' and the new tag.
C16_KeepsName ==
    TagOnlyDone =>
        ValueAfter(1) = [err |-> "",
                         val |-> StrNode(ImageName(ImageBefore) \o <<":">> \o req.newValue)]

\* C17: for a path that leads to a value, any new value and either
\* imageTagOnly setting, the value at the path after the second application
\* is the value after the first.
C17_Idempotent ==
    (/\ Len(errs) = 2
     /\ Present(history[1], req.file, req.yamlPath)
     /\ NoIOFault(1) /\ NoIOFault(2))
    => ValueAfter(2) = ValueAfter(1)

\* C18: a call of UpdateYAMLPath that returns an error from reading, decoding,
\* following the path, replacing the value or encoding leaves every file as it
\* was; the file changes only in a call that got as far as writing it.
C18_AllOrNothing ==
    \A k \in 1..Len(errs) : errs[k] \notin {"", "write"} => After(k) = history[k]
C18_Witness ==
    /\ Len(errs) >= 1
    /\ errs[1] = "out of bounds"
    /\ req.file \in DOMAIN disk
    /\ disk[req.file].fmt = "orig"
    /\ After(1) = history[1]

PathChars == WordChars \cup {".", "[", "]"}
\* the brackets of p pair up: no '[' inside a pair, no ']' outside one
RECURSIVE Balanced(_, _, _)
Balanced(p, i, open) ==
    IF i > Len(p) THEN ~open
    ELSE IF p[i] = "[" THEN ~open /\ Balanced(p, i + 1, TRUE)
    ELSE IF p[i] = "]" THEN open /\ Balanced(p, i + 1, FALSE)
    ELSE Balanced(p, i + 1, open)
\* some bracket pair of p holds something else than digits
NonNumericIndex(p) ==
    \E i, j \in 1..Len(p) :
        /\ i < j /\ p[i] = "[" /\ p[j] = "]"
        /\ \A k \in (i + 1)..(j - 1) : p[k] \notin {"[", "]"}
        /\ j = i + 1 \/ \E k \in (i + 1)..(j - 1) : p[k] \notin DigitChars
Malformed(p) ==
    \/ p = <<>>
    \/ \E i \in 1..Len(p) : p[i] \notin PathChars
    \/ ~Balanced(p, 1, FALSE)
    \/ NonNumericIndex(p)

\* C19: UpdateYAMLPath with a path expression that is empty, has a character
\* outside [A-Za-z0-9_.[]], a non-numeric bracket index or unbalanced brackets
\* returns an error and leaves the document as it was.
C19_Rejects ==
    (/\ Len(errs) >= 1
     /\ Malformed(req.yamlPath)
     /\ NoIOFault(1))
    => /\ errs[1] # ""
       /\ After(1) = history[1]

(***************************************************************************)
(* Properties of the path functions                                        *)
(***************************************************************************)
\* C20: ValidateYAMLPath returns nil for exactly the path expressions of the
\* grammar; it returns an error for the empty path, for an empty segment, for
\* a character outside the allowed set and for a non-numeric or unbalanced
\* bracket. It reads and writes no file.
C20_Grammar ==
    /\ verdict # <<>> => ((verdict[1] = "") <=> InGrammar(typed))
    /\ (verdict # <<>> /\ verdict[1] = "") => ~Malformed(typed)
    /\ disk = InitialRemote
C20_Witness ==
    /\ verdict = << "" >>
    /\ typed = <<"a", "[", "0", "]">>

\* the part parsePath gives for a step of the grammar: the identifier of a key
\* step, the decimal text of an index step
PartIs(part, step) ==
    IF step.kind = "key" THEN part = step.at
    ELSE /\ part # <<>>
         /\ \A i \in 1..Len(part) : part[i] \in DigitChars
         /\ DigitsValue(part, 0) = step.at

\* C21: for a path ValidateYAMLPath accepts, parsePath gives, segment by
\* segment, one part for the identifier and one part for each bracket pair.
C21_Steps ==
    (steps # <<>> /\ ValidateYAMLPath(typed) = "") =>
        LET g == GrammarSteps(typed)
        IN  /\ Len(steps[1]) = Len(g)
            /\ \A i \in 1..Len(g) : PartIs(steps[1][i], g[i])

(***************************************************************************)
(* Further properties of a reconciliation pass                             *)
(***************************************************************************)
\* the status the pass fetched records a failed pass
FetchedFailure ==
    \/ ReadyIs(fetched, "False", "RepositoryError")
    \/ ReadyIs(fetched, "False", "UpdateError")

\* C22: a pass that got past the interval gate and failed in the resolver or in
\* the converge step hands over a status with lastChecked = its now and
\* observedGeneration = the generation it fetched, and the store holds them
\* once the write is accepted; a status that records a failure carries a
\* stamp, and a following pass that fetches it less than checkInterval after
\* the stamp ends at the interval gate, the resolver and git not called.
C22_StampRetained ==
    /\ (pc = "done" /\ exit \in {"RepositoryError", "UpdateError"}) =>
         /\ wrote # <<>>
         /\ wrote[1].Status.LastChecked = <<now>>
         /\ wrote[1].Status.ObservedGeneration = yukConfig.Generation
         /\ wrote[1].ok =>
              /\ stored.Status.LastChecked = <<now>>
              /\ stored.Status.ObservedGeneration = yukConfig.Generation
    /\ (got = "ok" /\ FetchedFailure) => fetched.LastChecked # <<>>
    /\ (C1_Early /\ FetchedFailure) =>
         /\ pc = "done"
         /\ exit = "TooEarly"
         /\ calls = <<"Get">>
C22_Witness ==
    /\ passes = 2
    /\ C1_Early
    /\ ReadyIs(fetched, "False", "UpdateError")
    /\ fetched.CurrentTag = <<>>
    /\ pc = "done"
    /\ exit = "TooEarly"

TagsOf(images) ==
    LET all == Flatten(images)
    IN  {t \in {all[i] : i \in 1..Len(all)} : t # <<>>}
MatchingOf(images, f) ==
    IF f = <<>> THEN TagsOf(images)
    ELSE IF ~RegexCompiles(f) THEN {}
    ELSE {t \in TagsOf(images) : MatchString(f, t)}
Answered == listed # <<>> /\ resolved # <<>> /\ listed[1].aws = "ok"

\* C24: GetLatestTag returns an error and the empty tag when no image is
\* listed, when no listed tag is non-empty, or when no tag matches the filter;
\* a tag it returns is one of the listed tags and matches the filter if one is
\* given.
C24_NotFound ==
    Answered =>
      LET q == listed[1]
          r == resolved[1]
      IN  /\ (\/ q.images = <<>>
              \/ TagsOf(q.images) = {}
              \/ MatchingOf(q.images, q.filter) = {}) => (r.err # "" /\ r.tag = <<>>)
          /\ r.err # "" => r.tag = <<>>
          /\ r.err = "" => r.tag \in MatchingOf(q.images, q.filter)
C24_Witness ==
    /\ Answered
    /\ listed[1].images = << <<Tag12, Tag1>> >>
    /\ listed[1].filter = <<"x">>
    /\ resolved[1] = [err |-> "no tags found", tag |-> <<>>]

\* the whole tag matches the expression: what is left of the expression without
\* its anchors is the tag
WholeMatch(f, tag) ==
    LET p1  == IF f # <<>> /\ Head(f) = "^" THEN Tail(f) ELSE f
        lit == IF p1 # <<>> /\ p1[Len(p1)] = "$" THEN SubSeq(p1, 1, Len(p1) - 1) ELSE p1
    IN  tag = lit

\* C25: with a tag filter, the tag GetLatestTag returns is one the expression
\* matches as a whole; a tag of which the expression matches only a part is
\* not a candidate.
C25_Anchored ==
    (Answered /\ listed[1].filter # <<>> /\ resolved[1].err = "")
        => WholeMatch(listed[1].filter, resolved[1].tag)

\* the status records a current tag and it is the latest tag
TagsAgree(status) == status.CurrentTag # <<>> /\ status.CurrentTag = status.LatestTag

\* C26: the stored status starts without tags, and every step that makes its
\* recorded currentTag equal to latestTag is the accepted status write of a pass
\* that resolved that tag and ends with Ready = True, reason Synchronized; so
\* the two agree only after such a pass.
C26_OnlyAfterConverged ==
    /\ ~TagsAgree(stored.Status)
    /\ [][ (/\ TagsAgree(stored'.Status)
            /\ ~(/\ TagsAgree(stored.Status)
                 /\ stored.Status.CurrentTag = stored'.Status.CurrentTag)) =>
             /\ pc = "UpdateStatus" /\ exit = "Synchronized"
             /\ tagErr = "" /\ err = ""
             /\ stored'.Status = yukConfig.Status
             /\ stored'.Status.CurrentTag = latestTag
             /\ ReadyIs(stored'.Status, "True", "Synchronized") ]_vars
\* the tags still agree after a later pass whose resolver failed
C26_Witness ==
    /\ passes = 2 /\ pc = "done" /\ exit = "RepositoryError"
    /\ TagsAgree(stored.Status)
    /\ ReadyIs(stored.Status, "False", "RepositoryError")

\* the interval of the gate: the descriptor's, or five minutes
GateInterval5(spec) == IF spec.CheckInterval = <<>> THEN 5 ELSE spec.CheckInterval[1]
StoppedAtGate == pc = "done" /\ exit = "TooEarly"

\* C27: the pass over an existing, enabled descriptor is stopped by the interval
\* gate exactly when the fetched lastChecked is set and now - lastChecked is
\* less than checkInterval, which is 5 minutes when the descriptor gives none;
\* a pass that is not stopped stamps lastChecked with now and goes on to the
\* resolver, and a stopped one does neither.
C27_GateDecision ==
    PastGates =>
      LET ci   == GateInterval5(yukConfig.Spec)
          repo == yukConfig.Spec.Repository
      IN  /\ checkInterval = ci
          /\ StoppedAtGate <=>
                (fetched.LastChecked # <<>> /\ now - fetched.LastChecked[1] < ci)
          /\ StoppedAtGate =>
                /\ yukConfig.Status = fetched
                /\ calls = <<"Get">>
          /\ ~StoppedAtGate =>
                /\ yukConfig.Status.LastChecked = <<now>>
                /\ pc # "ResolveTag" =>
                     IF repo.Type = "ecr" /\ repo.ECR # <<>>
                     THEN Len(calls) >= 2 /\ calls[2] = "GetLatestTag"
                     ELSE tagErr # ""
\* a descriptor without checkInterval, checked exactly five minutes after the
\* last check
C27_Witness ==
    /\ PastGates
    /\ yukConfig.Spec.CheckInterval = <<>>
    /\ fetched.LastChecked = <<0>>
    /\ now = 5
    /\ yukConfig.Status.LastChecked = <<5>>
    /\ Called({"GetLatestTag"})

\* C28: the targets handed to UpdateYAMLPath are the first ones of
\* spec.updateTargets, in their order, and all of them before commit/push; when
\* the mutation of target k fails, k is the last target attempted, CommitAndPush
\* is not called and no git command runs, the remote is as it was cloned, and
\* the pass reports the error as UpdateError.
C28_OrderAbort ==
    LET targets == yukConfig.Spec.UpdateTargets
    IN  /\ Len(attempted) <= Len(targets)
        /\ attempted = SubSeq(targets, 1, Len(attempted))
        /\ Called({"CommitAndPush"}) =>
             /\ attempted = targets
             /\ calls[Len(attempted) + 4] = "CommitAndPush"
        /\ err = "failed to update file" =>
             /\ pc \in {"Cleanup", "UpdateStatus", "done"}
             /\ Len(attempted) = idx
             /\ ~Called({"CommitAndPush"})
             /\ ran = <<>>
             /\ remote = head
             /\ pc # "Cleanup" =>
                  /\ exit = "UpdateError"
                  /\ ReadyIs(yukConfig.Status, "False", "UpdateError")
\* the first of two targets failed
C28_Witness ==
    /\ pc = "done"
    /\ err = "failed to update file"
    /\ Len(yukConfig.Spec.UpdateTargets) = 2
    /\ attempted = << yukConfig.Spec.UpdateTargets[1] >>
    /\ calls = <<"Get", "GetLatestTag", "Clone", "UpdateYAMLPath", "Cleanup", "StatusUpdate">>

\* the positions of a collaborator's calls in the pass
At(op) == {i \in 1..Len(calls) : calls[i] = op}
Precedes(a, b) == \A i \in At(a), j \in At(b) : i < j

\* C29: in a pass the resolver's call comes before every git operation, the
\* checkout before every file mutation, every file mutation before
\* commit/push, commit/push before the status write, and a pass whose resolver
\* failed has no git operation.
C29_CallOrder ==
    /\ \A op \in GitOps : At(op) # {} =>
          /\ At("GetLatestTag") # {}
          /\ Precedes("GetLatestTag", op)
    /\ At("UpdateYAMLPath") # {} => (At("Clone") # {} /\ Precedes("Clone", "UpdateYAMLPath"))
    /\ At("CommitAndPush") # {} => (At("Clone") # {} /\ Precedes("Clone", "CommitAndPush"))
    /\ Precedes("UpdateYAMLPath", "CommitAndPush")
    /\ Precedes("CommitAndPush", "StatusUpdate")
    /\ Precedes("UpdateYAMLPath", "StatusUpdate")
    /\ tagErr # "" => ~Called(GitOps)
\* a pass that mutated two targets, pushed and wrote its status
C29_Witness ==
    /\ pc = "done"
    /\ calls = <<"Get", "GetLatestTag", "Clone", "UpdateYAMLPath", "UpdateYAMLPath",
                 "CommitAndPush", "Cleanup", "StatusUpdate">>
    /\ remote # head

RECURSIVE NavFails(_, _, _)
\* descending from node, one of the steps before the last one is a key step at
\* a map without the key, an index step outside a sequence, a key step at a
\* sequence, or a step at a scalar
NavFails(node, st, i) ==
    IF i >= Len(st) THEN FALSE
    ELSE IF node.k = "map"
    THEN /\ st[i].kind = "key"
         /\ st[i].at \in DOMAIN node.v => NavFails(node.v[st[i].at], st, i + 1)
    ELSE IF node.k = "seq"
    THEN \/ st[i].kind = "key"
         \/ st[i].at >= Len(node.v)
         \/ NavFails(node.v[st[i].at + 1], st, i + 1)
    ELSE TRUE
\* the request's path is one of the grammar and cannot be descended in the
\* document of dir
Blocked(dir) ==
    /\ req.file \in DOMAIN dir
    /\ dir[req.file].yaml
    /\ InGrammar(req.yamlPath)
    /\ NavFails(dir[req.file].doc, GrammarSteps(req.yamlPath), 1)

\* C30: when a step before the last one names a key the current map does not
\* have, an index outside the current sequence, a key at a sequence, or is
\* applied to a scalar, UpdateYAMLPath returns the navigation error and leaves
\* the directory as it was, and GetValueAtPath returns an error.
C30_NavigationErrors ==
    /\ \A k \in 1..Len(errs) :
         Blocked(history[k]) =>
            /\ errs[k] \in {"key not found", "out of bounds", "invalid array index",
                            "cannot navigate", "cannot set value"}
            /\ After(k) = history[k]
    /\ (seen # <<>> /\ Blocked(disk)) => seen[1].err # ""
\* an index outside the sequence on the way: c[1].b where c has one element
C30_Witness ==
    /\ Len(errs) = 2
    /\ req.yamlPath = <<"c", "[", "1", "]", ".", "b">>
    /\ Blocked(history[1])
    /\ errs[1] = "out of bounds"
    /\ disk = history[1]
    /\ seen # <<>> /\ seen[1].err = "out of bounds"

\* the steps of the request's path before the last one lead to a container of
\* the document of dir: its parent and its last step
ParentOf(dir) ==
    LET st == GrammarSteps(req.yamlPath)
    IN  Resolve(dir[req.file].doc, SubSeq(st, 1, Len(st) - 1), 1)
LastStep == LET st == GrammarSteps(req.yamlPath) IN st[Len(st)]
Reaches(dir) ==
    /\ req.file \in DOMAIN dir
    /\ dir[req.file].yaml
    /\ InGrammar(req.yamlPath)
    /\ ParentOf(dir).ok
\* the last step is a key step at a map that does not have the key
TerminalKeyMissing(dir) ==
    /\ Reaches(dir)
    /\ ParentOf(dir).val.k = "map"
    /\ LastStep.kind = "key"
    /\ LastStep.at \notin DOMAIN ParentOf(dir).val.v

\* C31: when the last step of the path is a key step and the map it is applied
\* to does not have the key, UpdateYAMLPath returns a key-not-found error and
\* the document is as it was (no key is added), whatever imageTagOnly is.
C31_TerminalKey ==
    (Len(errs) >= 1 /\ TerminalKeyMissing(history[1]))
       => /\ errs[1] = "key not found"
          /\ After(1) = history[1]

RECURSIVE IndexOnMap(_, _, _)
\* descending from node, an index step of the path meets a map
IndexOnMap(node, st, i) ==
    IF i > Len(st) THEN FALSE
    ELSE IF node.k = "map"
    THEN \/ st[i].kind = "index"
         \/ /\ st[i].at \in DOMAIN node.v
            /\ IndexOnMap(node.v[st[i].at], st, i + 1)
    ELSE IF node.k = "seq"
    THEN /\ st[i].kind = "index"
         /\ st[i].at < Len(node.v)
         /\ IndexOnMap(node.v[st[i].at + 1], st, i + 1)
    ELSE FALSE
Mismatch(dir) ==
    /\ req.file \in DOMAIN dir
    /\ dir[req.file].yaml
    /\ InGrammar(req.yamlPath)
    /\ IndexOnMap(dir[req.file].doc, GrammarSteps(req.yamlPath), 1)

\* C32: a path whose index step meets a map makes UpdateYAMLPath and
\* GetValueAtPath return an error, also when the map has a key spelled as the
\* index; no entry of the map is read or replaced and the document is as it
\* was.
C32_StepKinds ==
    /\ (Len(errs) >= 1 /\ Mismatch(history[1])) =>
          /\ errs[1] # ""
          /\ After(1) = history[1]
    /\ (seen # <<>> /\ Mismatch(disk)) => seen[1].err # ""

\* the request is a tag-only update of a value that is there and is not a string
TagOnlyOther ==
    /\ Len(errs) >= 1
    /\ req.imageTagOnly
    /\ Present(history[1], req.file, req.yamlPath)
    /\ SlotOf(history[1], req.file, req.yamlPath).k # "str"
    /\ NoIOFault(1)

\* C33: with imageTagOnly = true, when the value at the path (a map's value or
\* a sequence's element) is not a string, UpdateYAMLPath puts the new value in
\* its place as it is, and the document is the one the same call with
\* imageTagOnly = false gives.
C33_FallThrough ==
    TagOnlyOther =>
        /\ errs[1] = ""
        /\ ValueAfter(1) = [err |-> "", val |-> StrNode(req.newValue)]
        /\ After(1) = UpdateYAMLPath(history[1], req.file, req.yamlPath, req.newValue,
                                     FALSE, "none").dir
\* a sequence's element that is itself a sequence, replaced by a:b
C33_Witness ==
    /\ TagOnlyOther
    /\ req.yamlPath = <<"m", "[", "0", "]">>
    /\ SlotOf(history[1], req.file, req.yamlPath).k = "seq"
    /\ req.newValue = <<"a", ":", "b">>
    /\ ValueAfter(1).val = StrNode(<<"a", ":", "b">>)

\* the status has a Ready condition that is true
ReadyTrue(status) ==
    \E i \in 1..Len(status.Conditions) :
        status.Conditions[i].Type = "Ready" /\ status.Conditions[i].Status = "True"

\* C34: a status handed to Status().Update with Ready true has currentTag and
\* latestTag both equal to the tag the resolver returned in the pass, and the
\* stored status has currentTag = latestTag whenever its Ready is true.
C34_ReadyConverged ==
    /\ (wrote # <<>> /\ ReadyTrue(wrote[1].Status)) =>
          /\ tagErr = "" /\ latestTag # <<>>
          /\ wrote[1].Status.CurrentTag = latestTag
          /\ wrote[1].Status.LatestTag = latestTag
    /\ ReadyTrue(stored.Status) =>
          /\ stored.Status.CurrentTag # <<>>
          /\ stored.Status.CurrentTag = stored.Status.LatestTag
\* a second pass that found the tag current and wrote Ready true again
C34_Witness ==
    /\ passes = 2 /\ pc = "done" /\ exit = "Synchronized"
    /\ ~Called(GitOps)
    /\ wrote # <<>> /\ wrote[1].ok
    /\ ReadyTrue(stored.Status)
    /\ stored.Status.CurrentTag = latestTag

\* the pass is the retry of one that pushed the update for a tag and lost its
\* status write: the second pass, reading the status the first pass started
\* from and cloning a branch that has that pass' commit; the resolver answered
\* the commit's tag again and checkout, every mutation and git add succeeded
RetryOfLostWrite ==
    /\ passes = 2 /\ pc = "done"
    /\ got = "ok" /\ ~yukConfig.Spec.Disabled
    /\ fetched = ZeroStatus
    /\ Len(pushed) >= 1 /\ head # InitialRemote
    /\ tagErr = "" /\ latestTag = pushed[1]
    /\ Called({"CommitAndPush"})
    /\ ran # <<"add">>

\* C35: the retry of a pass that pushed the update for tag T and lost its
\* status write, with the resolver answering T again, applies the targets to a
\* fresh checkout, finds nothing staged, makes no second commit and no push,
\* and ends with currentTag = T and Ready true.
C35_RetryNoSecondCommit ==
    RetryOfLostWrite =>
        /\ attempted = yukConfig.Spec.UpdateTargets
        /\ ran = <<"add", "diff">>
        /\ pushed = << latestTag >>
        /\ err = ""
        /\ wrote # <<>>
        /\ wrote[1].Status.CurrentTag = latestTag
        /\ ReadyTrue(wrote[1].Status)

\* the stored status records SettledTag as current and latest, with Ready true
ConvergedOn(status) ==
    /\ status.CurrentTag = SettledTag
    /\ status.LatestTag = SettledTag
    /\ ReadyTrue(status)

\* the object is there and enabled, and the settled passes have all returned
SettledPassesDone ==
    /\ stored.exists /\ ~stored.Spec.Disabled
    /\ passes = MaxUnsettled + MaxSettled
    /\ pc \in {"idle", "done"}

\* the object is there and enabled and no pass is under way
PassReturned ==
    /\ stored.exists /\ ~stored.Spec.Disabled
    /\ pc \in {"idle", "done"}

\* C36: once the object is enabled and left alone, the resolver keeps
\* answering T, checkout, target mutations, commit/push and status writes
\* succeed and the work queue re-invokes the pass when RequeueAfter has passed,
\* the stored status comes to have currentTag = latestTag = T with Ready true,
\* and once it has, it keeps them through every later pass.  (A pass that
\* cannot go on without a failure, a target whose mutation fails say, is
\* outside the claim: it never returns.)
C36_Converges ==
    /\ <>[](PassReturned => ConvergedOn(stored.Status))
    /\ []((Settled /\ ConvergedOn(stored.Status)) => [](ConvergedOn(stored.Status)))
\* the first pass failed, and settled passes updated the files and then found
\* the tag current
C36_Witness ==
    /\ SettledPassesDone
    /\ ConvergedOn(stored.Status)
    /\ stored.Status.LastUpdate # <<>> /\ stored.Status.LastUpdate[1] > DefaultCheckInterval
    /\ stored.Status.LastChecked[1] > stored.Status.LastUpdate[1]
    /\ ~Called(GitOps)

\* LastUpdate, when set, is not later than LastChecked
Ordered(status) ==
    status.LastUpdate # <<>> =>
        /\ status.LastChecked # <<>>
        /\ status.LastUpdate[1] <= status.LastChecked[1]

\* a step that leaves the stored object in place does not take its LastChecked back
CheckedForward ==
    (stored.exists /\ stored'.exists /\ stored.Status.LastChecked # <<>>) =>
        /\ stored'.Status.LastChecked # <<>>
        /\ stored'.Status.LastChecked[1] >= stored.Status.LastChecked[1]

StoppedByGate == pc = "done" /\ exit = "TooEarly"

\* C38: whenever a pass is stopped by the interval gate, the returned
\* RequeueAfter is greater than zero and not greater than checkInterval,
\* also when the stored lastChecked lies after the clock's reading.
C38_GateDelayBounded ==
    StoppedByGate =>
        /\ result.RequeueAfter > 0
        /\ result.RequeueAfter <= checkInterval

RECURSIVE SameOutside(_, _, _, _)
\* the documents b and a differ at most in the slot that the steps from i on
\* lead to: every container on the way is of the same kind with the same keys
\* or the same length, and every value off the way is the same
SameOutside(b, a, st, i) ==
    IF i > Len(st) THEN TRUE
    ELSE /\ a.k = b.k
         /\ IF b.k = "map"
            THEN /\ DOMAIN a.v = DOMAIN b.v
                 /\ \A key \in DOMAIN b.v :
                      IF st[i].kind = "key" /\ st[i].at = key
                      THEN SameOutside(b.v[key], a.v[key], st, i + 1)
                      ELSE a.v[key] = b.v[key]
            ELSE IF b.k = "seq"
            THEN /\ Len(a.v) = Len(b.v)
                 /\ \A j \in 1..Len(b.v) :
                      IF st[i].kind = "index" /\ st[i].at + 1 = j
                      THEN SameOutside(b.v[j], a.v[j], st, i + 1)
                      ELSE a.v[j] = b.v[j]
            ELSE a = b

\* the k-th call succeeded and the request's path is one of the grammar
MutatedAt(k) == errs[k] = "" /\ InGrammar(req.yamlPath)

\* C39: after a successful mutation at path p, every value at a path other
\* than p and not below p is what it was, and every container keeps its kind
\* and its keys or its length; only the slot at p may differ.
C39_MutationFrame ==
    \A k \in 1..Len(errs) :
        MutatedAt(k) =>
            SameOutside(history[k][req.file].doc, After(k)[req.file].doc,
                        GrammarSteps(req.yamlPath), 1)

====
